---- MODULE Spec2Model ----
(***************************************************************************)
(* Model of the two-stage similarity-search annotation engine of Fama:     *)
(* the cross-validation step compare_hits_lca, the reference and           *)
(* background passes that stream tabular rows, and the taxonomy LCA.       *)
(*                                                                         *)
(* Numbers: bitscores, identities and lengths are integers; the bitscore   *)
(* range cutoff and the coverage values are rationals <<num, den>>, so the *)
(* float products and quotients of the code are computed exactly.          *)
(* Strings that the code splits at '|' or '_' are sequences of their       *)
(* tokens; sequence headers are sequences of characters.                   *)
(***************************************************************************)
EXTENDS Integers, Sequences, FiniteSets, TLC

VARIABLES
    params,       \* configuration of the run: bitscore range cutoff, coverage
    read,         \* the AnnotatedRead that compare_hits_lca is applied to
    call,         \* the last compare_hits_lca call: arguments, read before it, outcome
    log,          \* interval -> the scores its group contributes on its own
    mode,         \* which pass a streaming behaviour runs
    reads,        \* parser.reads: the working set, read id -> AnnotatedRead
    rows,         \* rows of the input stream the pass has not read yet
    current_id,   \* current_query_id / current_sequence_read_id: <<>> is None
    hit_list,     \* _hit_list, the hits of the group in flight: <<>> is None
    outcome,      \* "ready", "running", "returned" or "raised" for the pass
    finalized,    \* the groups the pass has finalized, with the working set
                  \* before and after each
    stream,       \* the rows the pass was given and the working set before it
    taxonomy_data \* the TaxonomyData instance: its names and nodes tables

vars == <<params, read, call, log, mode, reads, rows, current_id, hit_list, outcome, finalized, stream, taxonomy_data>>

(***************************************************************************)
(* Bounds of the model.                                                    *)
(***************************************************************************)
MaxHits == 3

(***************************************************************************)
(* Rational arithmetic for the float values of the code.                   *)
(***************************************************************************)
RECURSIVE Gcd(_, _)
Gcd(a, b) == IF b = 0 THEN a ELSE Gcd(b, a % b)

RatNorm(n, d) ==
    IF n = 0 THEN <<0, 1>>
    ELSE LET g == Gcd(n, d) IN <<n \div g, d \div g>>

RatAdd(x, y) == RatNorm(x[1] * y[2] + y[1] * x[2], x[2] * y[2])

RatDiv(x, y) == RatNorm(x[1] * y[2], x[2] * y[1])

Zero == <<0, 1>>

(***************************************************************************)
(* Taxonomy: identifiers and the loaded tree                               *)
(*   root -> A -> B -> C,  root -> A -> D -> E,  root -> G -> H            *)
(***************************************************************************)
UNKNOWN_TAXONOMY_ID == "0"
ROOT_TAXONOMY_ID == "1"
NoTaxonomy == "None"

LoadedNodes ==
    [t \in {"0", "1", "A", "B", "C", "D", "E", "G", "H"} |->
        CASE t = "0" -> [parent |-> "1", rank |-> "norank"]
          [] t = "1" -> [parent |-> "1", rank |-> "norank"]
          [] t = "A" -> [parent |-> "1", rank |-> "superkingdom"]
          [] t = "B" -> [parent |-> "A", rank |-> "phylum"]
          [] t = "C" -> [parent |-> "B", rank |-> "genus"]
          [] t = "D" -> [parent |-> "A", rank |-> "phylum"]
          [] t = "E" -> [parent |-> "D", rank |-> "genus"]
          [] t = "G" -> [parent |-> "1", rank |-> "superkingdom"]
          [] t = "H" -> [parent |-> "G", rank |-> "phylum"]]

LoadedNames == DOMAIN LoadedNodes

\* self.nodes and self.names are defaultdict(dict): a table is a function
\* from ids to dictionaries, the empty dictionary being <<>>.  A subscript
\* with a missing key adds the key with an empty dictionary.
has_field(table, key, field) == key \in DOMAIN table /\ field \in DOMAIN table[key]

vivify(table, key) == IF key \in DOMAIN table THEN table ELSE (key :> <<>>) @@ table

\* A set of ids as the list its iteration gives.
RECURSIVE SetToList(_)
SetToList(S) ==
    IF S = {} THEN <<>>
    ELSE <<CHOOSE x \in S : TRUE>> \o SetToList(S \ {CHOOSE x \in S : TRUE})

\* The root-to-node lineage built by the while loop of get_lca; names is
\* the set of keys of self.names.  self.nodes[parent_id]['parent'] raises
\* KeyError when parent_id has no parent in the table.
RECURSIVE lca_lineage(_, _, _, _)
lca_lineage(nodes, names, lineage, parent_id) ==
    IF ~has_field(nodes, parent_id, "parent")
    THEN [ret |-> "raise", lineage |-> lineage, key |-> parent_id]
    ELSE IF nodes[parent_id].parent = ROOT_TAXONOMY_ID
    THEN [ret |-> "return", lineage |-> lineage, key |-> parent_id]
    ELSE IF nodes[parent_id].parent \in names
    THEN lca_lineage(nodes, names, <<nodes[parent_id].parent>> \o lineage,
                     nodes[parent_id].parent)
    ELSE lca_lineage(nodes, names, <<UNKNOWN_TAXONOMY_ID>> \o lineage,
                     UNKNOWN_TAXONOMY_ID)

\* The lineage of one id of the list that is a key of self.nodes.
lca_lineage_of(nodes, names, taxonomy_id) ==
    IF ~has_field(nodes, taxonomy_id, "parent")
    THEN [ret |-> "raise", lineage |-> <<>>, key |-> taxonomy_id]
    ELSE lca_lineage(nodes, names, <<nodes[taxonomy_id].parent, taxonomy_id>>,
                     nodes[taxonomy_id].parent)

SetMin(S) == CHOOSE m \in S : \A x \in S : m <= x

TheElement(S) == CHOOSE x \in S : TRUE

\* The level loop of get_lca: i runs over range(0, min_depth + 1).
RECURSIVE lca_levels(_, _, _, _)
lca_levels(lineages, i, min_depth, upper_level_taxids) ==
    IF i > min_depth
    THEN IF Cardinality(upper_level_taxids) = 1
         THEN TheElement(upper_level_taxids)
         ELSE UNKNOWN_TAXONOMY_ID
    ELSE LET id_set == {lineages[t][i + 1] : t \in DOMAIN lineages}
         IN IF Cardinality(id_set) > 1
            THEN TheElement(upper_level_taxids)
            ELSE lca_levels(lineages, i + 1, min_depth, id_set)

\* The result of a read operation of TaxonomyData: how it ends, what it
\* returns, and self.nodes after it.
Returned(value, nodes) == [ret |-> "return", value |-> value, nodes |-> nodes]
KeyError(key, nodes) == [ret |-> "raise", value |-> key, nodes |-> vivify(nodes, key)]

\* The general case of get_lca, from the lineages of the ids of the list
\* that are keys of self.nodes; the first id whose lineage cannot be built
\* ends the call with a KeyError.
lca_general(nodes, taxonomy_id_list, present, walks) ==
    IF \E i \in present : walks[taxonomy_id_list[i]].ret = "raise"
    THEN KeyError(walks[taxonomy_id_list[
                      SetMin({i \in present :
                                 walks[taxonomy_id_list[i]].ret = "raise"})]].key,
                  nodes)
    ELSE IF present = {}
    THEN Returned(UNKNOWN_TAXONOMY_ID, nodes)    \* every level's id_set is empty
    ELSE Returned(lca_levels([t \in DOMAIN walks |-> walks[t].lineage], 0,
                             SetMin({Len(walks[t].lineage) - 1 : t \in DOMAIN walks}),
                             {UNKNOWN_TAXONOMY_ID}),
                  nodes)

\* TaxonomyData.get_lca on a list of taxonomy ids (a set is the list of its
\* elements).
get_lca(nodes, names, taxonomy_id_list) ==
    IF Len(taxonomy_id_list) = 1
    THEN Returned(IF taxonomy_id_list[1] = "" THEN UNKNOWN_TAXONOMY_ID
                  ELSE taxonomy_id_list[1], nodes)
    ELSE lca_general(nodes, taxonomy_id_list,
                     {i \in 1..Len(taxonomy_id_list) : taxonomy_id_list[i] \in DOMAIN nodes},
                     [t \in {taxonomy_id_list[i] : i \in 1..Len(taxonomy_id_list)}
                             \cap DOMAIN nodes |->
                         lca_lineage_of(nodes, names, t)])

\* dict[key][field] = value on a defaultdict(dict).
set_field(table, key, field, value) ==
    (key :> ((field :> value) @@ vivify(table, key)[key])) @@ table

\* load_taxdata, the names file: the rows of scientific names.
RECURSIVE load_names(_, _, _)
load_names(file, i, names) ==
    IF i > Len(file) THEN names
    ELSE IF file[i].name_class = "scientific name"
    THEN load_names(file, i + 1, set_field(names, file[i].id, "name", file[i].name))
    ELSE load_names(file, i + 1, names)

\* load_taxdata, the nodes file.
RECURSIVE load_nodes(_, _, _)
load_nodes(file, i, nodes) ==
    IF i > Len(file) THEN nodes
    ELSE load_nodes(file, i + 1,
                    set_field(set_field(nodes, file[i].taxid, "parent", file[i].parent),
                              file[i].taxid, "rank", file[i].rank))

Loaded(ret, names, nodes) == [ret |-> ret, names |-> names, nodes |-> nodes]

\* load_taxdata, the merged file: an old id whose new id has a name gets
\* the name, the parent and the rank of the new id; the subscript of
\* self.nodes with a new id that is no node adds it and raises KeyError.
RECURSIVE load_merged(_, _, _, _)
load_merged(file, i, names, nodes) ==
    IF i > Len(file) THEN Loaded("return", names, nodes)
    ELSE IF file[i].new_id \notin DOMAIN names
    THEN load_merged(file, i + 1, names, nodes)
    ELSE IF ~has_field(nodes, file[i].new_id, "parent")
    THEN Loaded("raise",
                set_field(names, file[i].old_id, "name", names[file[i].new_id].name),
                vivify(nodes, file[i].new_id))
    ELSE load_merged(file, i + 1,
             set_field(names, file[i].old_id, "name", names[file[i].new_id].name),
             set_field(set_field(nodes, file[i].old_id, "parent",
                                 nodes[file[i].new_id].parent),
                       file[i].old_id, "rank", nodes[file[i].new_id].rank))

\* load_taxdata, the injected entries: Unknown, and the rank of the root.
inject_unknown(names, nodes) ==
    Loaded("return",
           set_field(names, UNKNOWN_TAXONOMY_ID, "name", "Unknown"),
           set_field(set_field(set_field(nodes, UNKNOWN_TAXONOMY_ID, "parent",
                                         ROOT_TAXONOMY_ID),
                               UNKNOWN_TAXONOMY_ID, "rank", "norank"),
                     ROOT_TAXONOMY_ID, "rank", "norank"))

\* load_taxdata after the merged file: the injection, unless it has raised.
load_taxdata_merged(merged) ==
    IF merged.ret = "raise" THEN merged
    ELSE inject_unknown(merged.names, merged.nodes)

load_taxdata_named(options, names) ==
    IF DOMAIN names = {}
    THEN Loaded("raise", names, <<>>)    \* Taxonomy names load failed
    ELSE load_taxdata_merged(
             load_merged(options.taxonomy_merged_file, 1, names,
                         load_nodes(options.taxonomy_nodes_file, 1, <<>>)))

\* TaxonomyData.load_taxdata on the tables of a new instance.
load_taxdata(options) ==
    load_taxdata_named(options, load_names(options.taxonomy_names_file, 1, <<>>))

\* Fama.const.RANKS, the canonical ranks from the root to the leaves.
RANKS ==
    <<"norank", "superkingdom", "phylum", "class", "order", "family", "genus", "species">>

\* taxonomic_levels[rank].add(taxonomy_id) on a defaultdict(set).
add_level(taxonomic_levels, rank, taxonomy_id) ==
    (rank :> ({taxonomy_id} \cup (IF rank \in DOMAIN taxonomic_levels
                                  THEN taxonomic_levels[rank] ELSE {})))
        @@ taxonomic_levels

\* get_lca2, the walk from the parent of an id up to the root; a KeyError
\* ends it at an id that has no rank or no parent in self.nodes.
RECURSIVE lca2_walk(_, _, _)
lca2_walk(nodes, taxonomic_levels, parent_id) ==
    IF parent_id = ROOT_TAXONOMY_ID
    THEN [ret |-> "return", levels |-> taxonomic_levels, key |-> parent_id]
    ELSE IF ~has_field(nodes, parent_id, "rank") \/ ~has_field(nodes, parent_id, "parent")
    THEN [ret |-> "raise", levels |-> taxonomic_levels, key |-> parent_id]
    ELSE lca2_walk(nodes,
                   add_level(taxonomic_levels, nodes[parent_id].rank, parent_id),
                   nodes[parent_id].parent)

\* get_lca2, the loop over the ids: empty ids and ids that are no keys of
\* self.nodes are skipped.
RECURSIVE lca2_levels(_, _, _, _)
RECURSIVE lca2_next(_, _, _, _)
lca2_levels(nodes, taxonomy_id_list, i, taxonomic_levels) ==
    IF i > Len(taxonomy_id_list)
    THEN [ret |-> "return", levels |-> taxonomic_levels, key |-> ""]
    ELSE IF taxonomy_id_list[i] = "" \/ taxonomy_id_list[i] \notin DOMAIN nodes
    THEN lca2_levels(nodes, taxonomy_id_list, i + 1, taxonomic_levels)
    ELSE IF ~has_field(nodes, taxonomy_id_list[i], "rank")
            \/ ~has_field(nodes, taxonomy_id_list[i], "parent")
    THEN [ret |-> "raise", levels |-> taxonomic_levels, key |-> taxonomy_id_list[i]]
    ELSE lca2_next(nodes, taxonomy_id_list, i,
                   lca2_walk(nodes,
                             add_level(taxonomic_levels, nodes[taxonomy_id_list[i]].rank,
                                       taxonomy_id_list[i]),
                             nodes[taxonomy_id_list[i]].parent))

lca2_next(nodes, taxonomy_id_list, i, walk) ==
    IF walk.ret = "raise" THEN walk
    ELSE lca2_levels(nodes, taxonomy_id_list, i + 1, walk.levels)

\* get_lca2, the loop over RANKS[1:]: it stops at the first rank that does
\* not hold exactly one taxon.
RECURSIVE lca2_last_good_level(_, _, _)
lca2_last_good_level(taxonomic_levels, r, last_good_level) ==
    IF r > Len(RANKS) THEN last_good_level
    ELSE IF RANKS[r] \in DOMAIN taxonomic_levels
            /\ Cardinality(taxonomic_levels[RANKS[r]]) = 1
    THEN lca2_last_good_level(taxonomic_levels, r + 1, taxonomic_levels[RANKS[r]])
    ELSE last_good_level

\* get_lca2, the final loop: up to a taxon with a rank of RANKS, or the root.
RECURSIVE lca2_ascend(_, _)
lca2_ascend(nodes, ret_val) ==
    IF ret_val = ROOT_TAXONOMY_ID THEN ret_val
    ELSE IF \E r \in 1..Len(RANKS) : RANKS[r] = nodes[ret_val].rank THEN ret_val
    ELSE lca2_ascend(nodes, nodes[ret_val].parent)

lca2_result(nodes, found) ==
    IF found.ret = "raise" THEN KeyError(found.key, nodes)
    ELSE IF DOMAIN found.levels = {} THEN Returned(UNKNOWN_TAXONOMY_ID, nodes)
    ELSE Returned(lca2_ascend(nodes,
                      TheElement(lca2_last_good_level(found.levels, 2,
                                                      {ROOT_TAXONOMY_ID}))),
                  nodes)

\* TaxonomyData.get_lca2 on a list of taxonomy ids.
get_lca2(nodes, taxonomy_id_list) ==
    IF Len(taxonomy_id_list) = 1
    THEN Returned(IF taxonomy_id_list[1] = "" THEN UNKNOWN_TAXONOMY_ID
                  ELSE taxonomy_id_list[1], nodes)
    ELSE lca2_result(nodes, lca2_levels(nodes, taxonomy_id_list, 1, <<>>))

InRanks(rank) == \E r \in 1..Len(RANKS) : RANKS[r] = rank

\* get_upper_level_taxon, the while loop: up to the first taxon with a rank
\* of RANKS, or the root.
RECURSIVE upper_level_walk(_, _)
upper_level_walk(nodes, cur_id) ==
    IF cur_id = "1"
    THEN Returned(<<ROOT_TAXONOMY_ID, nodes[ROOT_TAXONOMY_ID].rank>>, nodes)
    ELSE IF ~has_field(nodes, cur_id, "parent")
    THEN KeyError(cur_id, nodes)
    ELSE IF ~has_field(nodes, nodes[cur_id].parent, "rank")
    THEN KeyError(nodes[cur_id].parent, nodes)
    ELSE IF InRanks(nodes[nodes[cur_id].parent].rank)
    THEN Returned(<<nodes[cur_id].parent, nodes[nodes[cur_id].parent].rank>>,
                  nodes)
    ELSE upper_level_walk(nodes, nodes[cur_id].parent)

\* TaxonomyData.get_upper_level_taxon; names is the set of keys of self.names.
get_upper_level_taxon(nodes, names, taxonomy_id) ==
    IF taxonomy_id \notin names
    THEN Returned(<<UNKNOWN_TAXONOMY_ID, nodes[UNKNOWN_TAXONOMY_ID].rank>>, nodes)
    ELSE IF ~has_field(nodes, taxonomy_id, "parent")
    THEN KeyError(taxonomy_id, nodes)
    ELSE IF ~has_field(nodes, nodes[taxonomy_id].parent, "rank")
    THEN KeyError(nodes[taxonomy_id].parent, nodes)
    ELSE IF nodes[taxonomy_id].parent = UNKNOWN_TAXONOMY_ID
    THEN Returned(<<UNKNOWN_TAXONOMY_ID, nodes[UNKNOWN_TAXONOMY_ID].rank>>, nodes)
    ELSE IF taxonomy_id = ROOT_TAXONOMY_ID
    THEN Returned(<<ROOT_TAXONOMY_ID, nodes[ROOT_TAXONOMY_ID].rank>>, nodes)
    ELSE IF InRanks(nodes[nodes[taxonomy_id].parent].rank)
    THEN Returned(<<nodes[taxonomy_id].parent, nodes[nodes[taxonomy_id].parent].rank>>,
                  nodes)
    ELSE upper_level_walk(nodes, nodes[taxonomy_id].parent)

\* TaxonomyData.get_taxonomy_rank.
get_taxonomy_rank(nodes, taxonomy_id) ==
    IF taxonomy_id \notin DOMAIN nodes THEN Returned(UNKNOWN_TAXONOMY_ID, nodes)
    ELSE IF ~has_field(nodes, taxonomy_id, "rank") THEN KeyError(taxonomy_id, nodes)
    ELSE Returned(nodes[taxonomy_id].rank, nodes)

\* The result of an operation that reads self.names as well: how it ends,
\* what it returns, and both tables after it.
Lineage(value, names, nodes) ==
    [ret |-> "return", value |-> value, names |-> names, nodes |-> nodes]
NameKeyError(key, names, nodes) ==
    [ret |-> "raise", value |-> key, names |-> vivify(names, key), nodes |-> nodes]
NodeKeyError(key, names, nodes) ==
    [ret |-> "raise", value |-> key, names |-> names, nodes |-> vivify(nodes, key)]

\* get_lineage_string and get_taxonomy_lineage, the while loop: the names of
\* the ancestors with a rank of RANKS, from the parent up to the child of
\* the root.  The string joined with '_' is the sequence of the names (the
\* names of the feeds hold no space and no parenthesis).
RECURSIVE lineage_walk(_, _, _, _)
lineage_walk(names, nodes, lineage, parent_id) ==
    IF ~has_field(nodes, parent_id, "parent")
    THEN NodeKeyError(parent_id, names, nodes)
    ELSE IF nodes[parent_id].parent = "1"
    THEN Lineage(lineage, names, nodes)
    ELSE IF InRanks(nodes[parent_id].rank) /\ ~has_field(names, parent_id, "name")
    THEN NameKeyError(parent_id, names, nodes)
    ELSE lineage_walk(names, nodes,
                      IF InRanks(nodes[parent_id].rank)
                      THEN <<names[parent_id].name>> \o lineage ELSE lineage,
                      IF nodes[parent_id].parent \in DOMAIN names
                      THEN nodes[parent_id].parent ELSE "0")

\* TaxonomyData.get_lineage_string.
get_lineage_string(names, nodes, taxonomy_id) ==
    IF taxonomy_id \notin DOMAIN nodes THEN Lineage(<<>>, names, nodes)
    ELSE IF ~has_field(names, taxonomy_id, "name")
    THEN NameKeyError(taxonomy_id, names, nodes)
    ELSE IF ~has_field(nodes, taxonomy_id, "parent")
    THEN NodeKeyError(taxonomy_id, names, nodes)
    ELSE lineage_walk(names, nodes, <<names[taxonomy_id].name>>, nodes[taxonomy_id].parent)

\* TaxonomyData.get_taxonomy_lineage: the same statements.
get_taxonomy_lineage(names, nodes, taxonomy_id) ==
    IF taxonomy_id \notin DOMAIN nodes THEN Lineage(<<>>, names, nodes)
    ELSE IF ~has_field(names, taxonomy_id, "name")
    THEN NameKeyError(taxonomy_id, names, nodes)
    ELSE IF ~has_field(nodes, taxonomy_id, "parent")
    THEN NodeKeyError(taxonomy_id, names, nodes)
    ELSE lineage_walk(names, nodes, <<names[taxonomy_id].name>>, nodes[taxonomy_id].parent)

\* The feeds of the taxonomy.
NameRow(id, name, name_class) == [id |-> id, name |-> name, name_class |-> name_class]
NodeRow(taxid, parent, rank) == [taxid |-> taxid, parent |-> parent, rank |-> rank]
MergedRow(old_id, new_id) == [old_id |-> old_id, new_id |-> new_id]

Options(names_file, nodes_file, merged_file) ==
    [taxonomy_names_file |-> names_file, taxonomy_nodes_file |-> nodes_file,
     taxonomy_merged_file |-> merged_file]

\* Names and nodes of the tree root->A->B->C, root->A->D->E, root->G->H.
StandardNames ==
    <<NameRow("1", "root", "scientific name"), NameRow("1", "all", "synonym"),
      NameRow("A", "a", "scientific name"), NameRow("B", "b", "scientific name"),
      NameRow("C", "c", "scientific name"), NameRow("D", "d", "scientific name"),
      NameRow("E", "e", "scientific name"), NameRow("G", "g", "scientific name"),
      NameRow("H", "h", "scientific name")>>

StandardNodes ==
    <<NodeRow("1", "1", "no rank"), NodeRow("A", "1", "superkingdom"),
      NodeRow("B", "A", "phylum"), NodeRow("C", "B", "genus"),
      NodeRow("D", "A", "phylum"), NodeRow("E", "D", "genus"),
      NodeRow("G", "1", "superkingdom"), NodeRow("H", "G", "phylum")>>

StandardOptions == Options(StandardNames, StandardNodes, <<>>)

\* The tables of the TaxonomyData instance that the passes use.
LoadedTaxonomy ==
    [names |-> load_taxdata(StandardOptions).names,
     nodes |-> load_taxdata(StandardOptions).nodes]

(***************************************************************************)
(* Reference data: subject -> functions, subject -> taxon.                 *)
(* S3 and S5 are background proteins: their function is the sentinel "".   *)
(***************************************************************************)
Subjects == {"S1", "S2", "S3", "S4", "S5"}

lookup_protein_function(subject_id) ==
    CASE subject_id = "S1" -> <<"F1">>
      [] subject_id = "S2" -> <<"F2">>
      [] subject_id = "S4" -> <<"F1", "F2">>
      [] OTHER -> <<"">>

lookup_protein_tax(subject_id) ==
    CASE subject_id = "S1" -> "C"
      [] subject_id = "S2" -> "E"
      [] subject_id = "S3" -> "B"
      [] subject_id = "S4" -> "C"
      [] subject_id = "S5" -> "H"
      [] OTHER -> ""

\* DiamondHit.annotate_hit: attach the functions of the hit's subject.
annotate_hit(hit) ==
    [hit EXCEPT !.functions = lookup_protein_function(hit.subject_id)]

\* DiamondHitList.annotate_hits: annotate every hit of the list.
annotate_hits(hits) == [i \in 1..Len(hits) |-> annotate_hit(hits[i])]

(***************************************************************************)
(* AnnotatedRead and DiamondHitList operations used by the engine.         *)
(***************************************************************************)
Range(s) == {s[i] : i \in 1..Len(s)}

\* AnnotatedRead.set_status
set_status(rd, status) == [rd EXCEPT !.status = status]

\* AnnotatedRead.append_functions: scores are added to the mapping, a function
\* seen for the first time starts from the contributed score.
append_functions(rd, new_functions) ==
    [rd EXCEPT !.functions =
        [f \in DOMAIN rd.functions \cup DOMAIN new_functions |->
            IF f \in DOMAIN new_functions
            THEN IF f \in DOMAIN rd.functions
                 THEN RatAdd(rd.functions[f], new_functions[f])
                 ELSE new_functions[f]
            ELSE rd.functions[f]]]

\* DiamondHitList.add_hit
add_hit(hits, hit) == Append(hits, hit)

(***************************************************************************)
(* protein_functional_pipeline.get_protein_score                           *)
(***************************************************************************)
get_protein_score(average_coverage, coverage) ==
    IF average_coverage[1] > 0
    THEN RatDiv(coverage, average_coverage)
    ELSE coverage

\* The contig of a protein: the header's first field without its last
\* '_'-separated token (the header is held as that field's tokens, the
\* leading '>' left out).
contig_id_of(read_id_line) == SubSeq(read_id_line, 1, Len(read_id_line) - 1)

\* The coverage value compare_hits_lca uses for a protein.
coverage_of(rd, coverage_data) ==
    IF contig_id_of(rd.read_id_line) \in DOMAIN coverage_data
    THEN coverage_data[contig_id_of(rd.read_id_line)]
    ELSE <<1, 1>>

(***************************************************************************)
(* compare_hits_lca, step by step.                                         *)
(***************************************************************************)
\* A variant of find_best_hit that lets a later hit of equal bitscore win.
RECURSIVE find_best_hit_last(_, _, _, _)
find_best_hit_last(new_hit_list, i, best_hit, best_bitscore) ==
    IF i > Len(new_hit_list) THEN [hit |-> best_hit, bitscore |-> best_bitscore]
    ELSE IF new_hit_list[i].bitscore >= best_bitscore /\ new_hit_list[i].bitscore > 0
         THEN find_best_hit_last(new_hit_list, i + 1, i, new_hit_list[i].bitscore)
         ELSE find_best_hit_last(new_hit_list, i + 1, best_hit, best_bitscore)

\* The loop that finds the best hit: index of the first hit of maximal
\* bitscore above 0.0, or 0 when there is none (best_hit is None).
RECURSIVE find_best_hit(_, _, _, _)
find_best_hit(new_hit_list, i, best_hit, best_bitscore) ==
    IF i > Len(new_hit_list) THEN [hit |-> best_hit, bitscore |-> best_bitscore]
    ELSE IF new_hit_list[i].bitscore > best_bitscore
         THEN find_best_hit(new_hit_list, i + 1, i, new_hit_list[i].bitscore)
         ELSE find_best_hit(new_hit_list, i + 1, best_hit, best_bitscore)

\* A variant of above_lower_cutoff that keeps a hit at the cutoff itself.
above_lower_cutoff_ge(bitscore, best_bitscore, cutoff) ==
    bitscore * cutoff[2] >= best_bitscore * (cutoff[2] - cutoff[1])

\* new_hit.bitscore > best_bitscore * (1.0 - bitscore_range_cutoff)
above_lower_cutoff(bitscore, best_bitscore, cutoff) ==
    bitscore * cutoff[2] > best_bitscore * (cutoff[2] - cutoff[1])

\* The list comprehension that filters the new hits by bitscore.
filter_by_bitscore(new_hit_list, best_bitscore, cutoff) ==
    SelectSeq(new_hit_list,
              LAMBDA h : above_lower_cutoff(h.bitscore, best_bitscore, cutoff))

\* A variant of readmit_hit that does not look at the subjects of the new hits.
readmit_hit_any_subject(hit, new_hits, best_bitscore) ==
    hit.bitscore >= best_bitscore

\* The condition under which the known hit is appended to the new hits.
readmit_hit(hit, new_hits, best_bitscore) ==
    /\ hit.subject_id \notin {h.subject_id : h \in Range(new_hits)}
    /\ hit.bitscore >= best_bitscore

\* new_hits after the filter and the append of the known hit.
kept_hits(hit, new_hit_list, best_bitscore, cutoff) ==
    LET new_hits == filter_by_bitscore(new_hit_list, best_bitscore, cutoff)
    IN IF readmit_hit(hit, new_hits, best_bitscore)
       THEN Append(new_hits, hit)
       ELSE new_hits

\* A variant of collect_taxonomy_ids that skips the hits without a function.
collect_taxonomy_ids_functional(new_hits) ==
    {lookup_protein_tax(h.subject_id) :
        h \in {x \in Range(new_hits) : "" \notin Range(x.functions)}}

\* The taxonomy ids collected for LCA inference.
collect_taxonomy_ids(new_hits) ==
    {lookup_protein_tax(h.subject_id) : h \in Range(new_hits)}

\* A variant of tally_function in which the latest hit of a function replaces
\* the one kept so far, whatever their bitscores.
tally_function_overwrite(t, new_hit, new_func) ==
    IF new_func \in DOMAIN t.counter
    THEN [order |-> t.order,
          counter |-> [t.counter EXCEPT ![new_func] = @ + 1],
          dict |-> [t.dict EXCEPT ![new_func] = new_hit]]
    ELSE [order |-> Append(t.order, new_func),
          counter |-> t.counter @@ (new_func :> 1),
          dict |-> t.dict @@ (new_func :> new_hit)]

\* One pass of the inner loop body: count the function, keep its best hit.
\* order is the insertion order of the Counter and of the dict.
tally_function(t, new_hit, new_func) ==
    IF new_func \in DOMAIN t.counter
    THEN [order |-> t.order,
          counter |-> [t.counter EXCEPT ![new_func] = @ + 1],
          dict |-> IF new_hit.bitscore > t.dict[new_func].bitscore
                   THEN [t.dict EXCEPT ![new_func] = new_hit]
                   ELSE t.dict]
    ELSE [order |-> Append(t.order, new_func),
          counter |-> t.counter @@ (new_func :> 1),
          dict |-> t.dict @@ (new_func :> new_hit)]

RECURSIVE tally_hit(_, _, _)
tally_hit(t, new_hit, j) ==
    IF j > Len(new_hit.functions) THEN t
    ELSE tally_hit(tally_function(t, new_hit, new_hit.functions[j]), new_hit, j + 1)

RECURSIVE tally_hits(_, _, _)
tally_hits(t, new_hits, i) ==
    IF i > Len(new_hits) THEN t
    ELSE tally_hits(tally_hit(t, new_hits[i], 1), new_hits, i + 1)

EmptyTally == [order |-> <<>>, counter |-> <<>>, dict |-> <<>>]

\* A variant of most_common that takes the first inserted key.
most_common_first(t) == t.order[1]

\* Counter.most_common(1)[0][0]: the first inserted key of maximal count.
most_common(t) ==
    LET top == CHOOSE i \in 1..Len(t.order) :
                  /\ \A j \in 1..Len(t.order) :
                        t.counter[t.order[j]] <= t.counter[t.order[i]]
                  /\ \A j \in 1..(i - 1) :
                        t.counter[t.order[j]] < t.counter[t.order[i]]
    IN t.order[top]

\* The functions that get a score and a hit: the dict's keys but "".
scored_functions(t) == SelectSeq(t.order, LAMBDA f : f # "")

\* new_functions: the score of every function of the dict but "".
score_functions(t, average_coverage, coverage) ==
    [f \in Range(scored_functions(t)) |->
        get_protein_score(average_coverage, coverage)]

\* The new list of hits: the best hit of each function, in dict order,
\* with the read's id as query id, annotated again.
rebuild_hit_list(rd, t) ==
    [k \in 1..Len(scored_functions(t)) |->
        annotate_hit([t.dict[scored_functions(t)[k]] EXCEPT !.query_id = rd.read_id])]

\* The body of the loop for a hit of the read at (hit_start, hit_end).
\* ret: "continue" (the loop goes on), "return", or "raise" (IndexError of
\* most_common(1)[0] on an empty Counter). new_hits is the local of that
\* name when the body ends, filtered tells whether the filter was reached.
compare_with_hit(rd, hit, new_hit_list, cutoff, average_coverage, coverage) ==
    LET best == find_best_hit(new_hit_list, 1, 0, 0)
    IN IF best.hit = 0
       THEN [read |-> set_status(rd, "nofunction"), ret |-> "return",
             filtered |-> FALSE, new_hits |-> <<>>]
       ELSE IF "" \in Range(new_hit_list[best.hit].functions)
       THEN [read |-> set_status(rd, "nofunction"), ret |-> "return",
             filtered |-> FALSE, new_hits |-> <<>>]
       ELSE LET new_hits == kept_hits(hit, new_hit_list, best.bitscore, cutoff)
                t == tally_hits(EmptyTally, new_hits, 1)
                r1 == set_status(rd, "function")
            IN IF t.order = <<>>
               THEN [read |-> r1, ret |-> "raise",
                     filtered |-> TRUE, new_hits |-> new_hits]
               ELSE IF most_common(t) = ""
               THEN [read |-> set_status(r1, "nofunction"), ret |-> "return",
                     filtered |-> TRUE, new_hits |-> new_hits]
               ELSE [read |->
                        [append_functions(r1,
                             score_functions(t, average_coverage, coverage))
                         EXCEPT !.hit_list = rebuild_hit_list(rd, t),
                                !.taxonomy = get_lca(LoadedNodes, LoadedNames,
                                    SetToList(collect_taxonomy_ids(new_hits))).value],
                     ret |-> "continue",
                     filtered |-> TRUE, new_hits |-> new_hits]

\* The loop over read.hit_list.hits: the list is the one the read holds when
\* the call starts; a return or a raise inside the body ends the call.
\* trace lists, for every hit the body ran for, the hit and the body's locals.
RECURSIVE compare_loop(_, _, _, _, _, _, _, _, _, _)
compare_loop(rd, hits, i, hit_start, hit_end, new_hit_list, cutoff, average_coverage, coverage, trace) ==
    IF i > Len(hits) THEN [read |-> rd, ret |-> "return", trace |-> trace]
    ELSE IF hits[i].q_start = hit_start /\ hits[i].q_end = hit_end
    THEN LET r == compare_with_hit(rd, hits[i], new_hit_list, cutoff,
                                   average_coverage, coverage)
             tr == Append(trace, [hit |-> hits[i], ret |-> r.ret,
                                  filtered |-> r.filtered,
                                  new_hits |-> r.new_hits])
         IN IF r.ret = "continue"
            THEN compare_loop(r.read, hits, i + 1, hit_start, hit_end,
                              new_hit_list, cutoff, average_coverage, coverage, tr)
            ELSE [read |-> r.read, ret |-> r.ret, trace |-> tr]
    ELSE compare_loop(rd, hits, i + 1, hit_start, hit_end, new_hit_list,
                      cutoff, average_coverage, coverage, trace)

\* A variant of compare_hits_lca that takes the read's first hit as the
\* anchor, whatever the interval of the group.
compare_hits_lca_first_hit(rd, hit_start, hit_end, new_hit_list, cutoff, average_coverage, coverage_data) ==
    IF rd.hit_list = <<>>
    THEN [read |-> rd, ret |-> "return", trace |-> <<>>]
    ELSE compare_loop(rd, rd.hit_list, 1, rd.hit_list[1].q_start, rd.hit_list[1].q_end,
                      new_hit_list, cutoff, average_coverage,
                      coverage_of(rd, coverage_data), <<>>)

\* compare_hits_lca(read, hit_start, hit_end, new_hit_list, bitscore_range_cutoff,
\*                  average_coverage, taxonomy_data, ref_data, coverage_data)
compare_hits_lca(rd, hit_start, hit_end, new_hit_list, cutoff, average_coverage, coverage_data) ==
    compare_loop(rd, rd.hit_list, 1, hit_start, hit_end, new_hit_list, cutoff,
                 average_coverage, coverage_of(rd, coverage_data), <<>>)

(***************************************************************************)
(* The data of the cross-validation behaviours.                            *)
(***************************************************************************)
Hit(query_id, subject_id, q_start, q_end, bitscore) ==
    [query_id |-> query_id, subject_id |-> subject_id, identity |-> 90,
     length |-> (IF q_end >= q_start THEN q_end - q_start ELSE q_start - q_end) + 1,
     q_start |-> q_start, q_end |-> q_end, bitscore |-> bitscore,
     functions |-> lookup_protein_function(subject_id)]

\* The read as the reference pass and the sequence import leave it: two
\* hits on distinct intervals, both carrying F1.
AnchorRead ==
    [read_id |-> <<"Q1">>, read_id_line |-> <<"c1", "5">>,
     status |-> "unprocessed",
     hit_list |-> <<Hit(<<"Q1">>, "S1", 50, 150, 48),
                    Hit(<<"Q1">>, "S4", 1, 40, 46)>>,
     functions |-> <<>>, taxonomy |-> NoTaxonomy]

\* The intervals exported for the read: one composite id per hit.
Intervals == {<<AnchorRead.hit_list[i].q_start, AnchorRead.hit_list[i].q_end>> :
                 i \in 1..Len(AnchorRead.hit_list)}

\* Hits a background search may report for a sub-interval (coordinates are
\* relative to the exported sub-sequence).
ValidationHits(query_id) ==
    {Hit(query_id, "S1", 1, 40, 50),
     Hit(query_id, "S2", 5, 30, 48),
     Hit(query_id, "S3", 1, 40, 60),
     Hit(query_id, "S3", 1, 40, 46),
     Hit(query_id, "S5", 5, 30, 48),
     Hit(query_id, "S4", 1, 40, 45)}

SeqsUpTo(S, n) == UNION {[1..k -> S] : k \in 0..n}

\* parse_background_output: the average of the coverage values, 0.0 when
\* no coverage data were provided.
average_coverage_of(coverage_data) ==
    IF DOMAIN coverage_data # {}
    THEN LET RECURSIVE total(_)
             total(D) == IF D = {} THEN Zero
                         ELSE LET c == CHOOSE x \in D : TRUE
                              IN RatAdd(coverage_data[c], total(D \ {c}))
         IN RatDiv(total(DOMAIN coverage_data),
                   <<Cardinality(DOMAIN coverage_data), 1>>)
    ELSE Zero

NoCoverage == <<>>
ContigCoverage == (<<"c1">> :> <<3, 1>>) @@ (<<"c2">> :> <<1, 1>>)
\* A coverage file in which no contig has coverage.
ZeroCoverage == (<<"c1">> :> Zero) @@ (<<"c2">> :> Zero)

Params == [cutoff : {<<1, 10>>, <<0, 10>>},
           coverage_data : {NoCoverage, ContigCoverage, ZeroCoverage}]

NoCall == [ret |-> "none", trace |-> <<>>]

\* What a group contributes when it is compared with its own anchor hit.
own_contribution(interval, new_hit_list, p) ==
    LET r == compare_hits_lca(AnchorRead, interval[1], interval[2], new_hit_list,
                              p.cutoff, average_coverage_of(p.coverage_data),
                              p.coverage_data)
    IN IF r.ret # "raise" /\ r.read.status = "function"
       THEN r.read.functions ELSE <<>>

(***************************************************************************)
(* Cross-validation of one read, group by group.                           *)
(***************************************************************************)
InitCalls ==
    /\ taxonomy_data = LoadedTaxonomy
    /\ params \in Params
    /\ read = AnchorRead
    /\ call = NoCall
    /\ log = <<>>
    /\ mode = "calls"
    /\ reads = <<>>
    /\ rows = <<>>
    /\ current_id = <<>>
    /\ hit_list = <<>>
    /\ outcome = "running"
    /\ finalized = <<>>
    /\ stream = [rows |-> <<>>, reads |-> <<>>]

\* A completed group of the background pass reaches compare_hits_lca.
CrossValidate ==
    /\ call = NoCall
    /\ \E interval \in Intervals \ DOMAIN log :
       \E new_hit_list \in SeqsUpTo(ValidationHits(read.read_id \o interval), MaxHits) :
          \* only the first group of a stream can reach the call without hits
          /\ new_hit_list = <<>> => log = <<>>
          /\ LET r == compare_hits_lca(read, interval[1], interval[2], new_hit_list,
                                    params.cutoff,
                                    average_coverage_of(params.coverage_data),
                                    params.coverage_data)
             IN /\ read' = r.read
                /\ call' = [ret |-> r.ret, hit_start |-> interval[1],
                            hit_end |-> interval[2], new_hit_list |-> new_hit_list,
                            pre |-> read, trace |-> r.trace]
                /\ log' = log @@ (interval :>
                                    own_contribution(interval, new_hit_list, params))
    /\ UNCHANGED <<taxonomy_data, params, mode, reads, rows, current_id, hit_list, outcome, finalized, stream>>

\* The pass starts the next group: the finished group's list is dropped.
\* An exception raised by the call ends the pass instead.
NextGroup ==
    /\ call # NoCall
    /\ call.ret # "raise"
    /\ call' = NoCall
    /\ UNCHANGED <<taxonomy_data, params, read, log, mode, reads, rows, current_id, hit_list, outcome, finalized, stream>>

Next == CrossValidate \/ NextGroup

Spec == InitCalls /\ [][Next]_vars

(***************************************************************************)
(* What the claims speak of, stated from the call's arguments.             *)
(***************************************************************************)
AllFunctions == {"F1", "F2"}

Called == call # NoCall

\* The iterations of the last call: one per hit of the read found at the
\* group's interval.
Iterations == 1..Len(call.trace)

AnchorFound == Called /\ call.trace # <<>>

\* The call returned (it did not raise) with the read's status "function",
\* having run for the anchor hit.
EndedWithFunction ==
    AnchorFound /\ call.ret = "return" /\ read.status = "function"

LastIteration == call.trace[Len(call.trace)]

ValidationIndex == 1..Len(call.new_hit_list)

HasBest == \E k \in ValidationIndex : call.new_hit_list[k].bitscore > 0

\* The maximal bitscore of the validation hits.
BestBitscore ==
    LET S == {call.new_hit_list[k].bitscore : k \in ValidationIndex}
    IN CHOOSE m \in S : \A x \in S : x <= m

\* The best hit: the first validation hit of maximal bitscore.
BestIndex ==
    CHOOSE k \in ValidationIndex :
        /\ call.new_hit_list[k].bitscore = BestBitscore
        /\ \A j \in 1..(k - 1) : call.new_hit_list[j].bitscore < BestBitscore

BestIsSentinel == "" \in Range(call.new_hit_list[BestIndex].functions)

\* bitscore > best_bitscore * (1 - bitscore_range_cutoff), cutoff = num/den.
AboveWindow(bitscore) ==
    bitscore * params.cutoff[2] > BestBitscore * (params.cutoff[2] - params.cutoff[1])

AtWindowBoundary(bitscore) ==
    bitscore * params.cutoff[2] = BestBitscore * (params.cutoff[2] - params.cutoff[1])

InWindow == {k \in ValidationIndex : AboveWindow(call.new_hit_list[k].bitscore)}

\* The rule of re-admission for the anchor hit of an iteration.
ShouldReadmit(anchor) ==
    /\ \A k \in InWindow : call.new_hit_list[k].subject_id # anchor.subject_id
    /\ anchor.bitscore >= BestBitscore

\* Number of kept hits (window hits, and the anchor when re-admitted) that
\* carry function f.
KeptCount(anchor, f) ==
    Cardinality({k \in InWindow : f \in Range(call.new_hit_list[k].functions)})
    + (IF ShouldReadmit(anchor) /\ f \in Range(anchor.functions) THEN 1 ELSE 0)

KeptFunctions(anchor) == {f \in AllFunctions \cup {""} : KeptCount(anchor, f) > 0}

SentinelIsMostFrequent(anchor) ==
    /\ KeptCount(anchor, "") > 0
    /\ \A f \in AllFunctions : KeptCount(anchor, f) < KeptCount(anchor, "")

\* A hit of the read's list is validation hit v but for the query id.
SameButQuery(h, v) == [h EXCEPT !.query_id = v.query_id] = v

\* The hits kept for an iteration: the validation hits in the window and the
\* anchor hit when the re-admission rule admits it.
KeptSet(anchor) ==
    {call.new_hit_list[k] : k \in InWindow}
    \cup (IF ShouldReadmit(anchor) THEN {anchor} ELSE {})

Carrying(anchor, f) == {h \in KeptSet(anchor) : f \in Range(h.functions)}

IsBestFor(anchor, h, f) ==
    /\ h \in Carrying(anchor, f)
    /\ \A x \in Carrying(anchor, f) : x.bitscore <= h.bitscore

HitListIndex == 1..Len(read.hit_list)

RECURSIVE SumContributions(_, _)
SumContributions(D, f) ==
    IF D = {} THEN Zero
    ELSE LET i == CHOOSE x \in D : TRUE
         IN RatAdd(log[i][f], SumContributions(D \ {i}, f))

(***************************************************************************)
(* The claims about compare_hits_lca.                                      *)
(***************************************************************************)

\* C1: once the groups of both intervals of the read have been processed, in
\* either order, a function that each group resolves to on its own has in the
\* read's functions mapping the sum of the two groups' score contributions.
C1_ContributionsAccumulate ==
    (DOMAIN log = Intervals /\ Called /\ call.ret = "return") =>
        \A f \in AllFunctions :
            (\A i \in Intervals : f \in DOMAIN log[i]) =>
                /\ f \in DOMAIN read.functions
                /\ read.functions[f] = SumContributions(Intervals, f)

\* C4: majority veto. For every hit the call ran for, if the empty-function
\* sentinel is carried by more of the kept hits (window hits and re-admitted
\* anchor) than any other function id, the read's status after the call is
\* nofunction, whatever the function of the best hit.
C4_MajorityVeto ==
    Called =>
        \A n \in Iterations :
            (HasBest /\ SentinelIsMostFrequent(call.trace[n].hit)) =>
                read.status = "nofunction"

\* C4 witness: the best hit carries a function, the sentinel wins the vote,
\* and the status is nofunction.
C4_Witness ==
    /\ AnchorFound /\ HasBest
    /\ ~BestIsSentinel
    /\ SentinelIsMostFrequent(LastIteration.hit)
    /\ call.pre.status = "unprocessed"
    /\ read.status = "nofunction"

\* C5: when the anchor hit is found and there is no best validation hit, or
\* the best validation hit carries the sentinel, the status becomes nofunction
\* and the functions mapping, the hit list and the taxonomy id are unchanged.
C5_NoBestOrSentinelBest ==
    (AnchorFound /\ (~HasBest \/ BestIsSentinel)) =>
        /\ read.status = "nofunction"
        /\ read.functions = call.pre.functions
        /\ read.hit_list = call.pre.hit_list
        /\ read.taxonomy = call.pre.taxonomy

\* C5 witness: a read that had status function, scores and a taxonomy id is
\* compared with a list whose best hit carries the sentinel.
C5_Witness ==
    /\ AnchorFound /\ HasBest /\ BestIsSentinel
    /\ call.pre.status = "function"
    /\ call.pre.functions # <<>>
    /\ read.status = "nofunction"

\* C6: window boundary. In every iteration that reaches the filter, a
\* validation hit is among the kept hits iff its bitscore is strictly greater
\* than best_bitscore * (1 - bitscore_range_cutoff); a hit at exactly that
\* product is not kept.
C6_WindowBoundary ==
    Called =>
        \A n \in Iterations :
            call.trace[n].filtered =>
                \A k \in ValidationIndex :
                    (call.new_hit_list[k] \in Range(call.trace[n].new_hits))
                        <=> AboveWindow(call.new_hit_list[k].bitscore)

\* C6 witness: a validation hit at exactly the product is left out while
\* another hit is kept.
C6_Witness ==
    /\ AnchorFound /\ LastIteration.filtered
    /\ \E k \in ValidationIndex :
          /\ AtWindowBoundary(call.new_hit_list[k].bitscore)
          /\ call.new_hit_list[k] \notin Range(LastIteration.new_hits)
    /\ LastIteration.new_hits # <<>>

\* C7: re-admission. In every iteration that reaches the filter, the anchor
\* hit is among the kept hits exactly when its subject is the subject of no
\* kept validation hit and its bitscore is at least the best validation
\* bitscore; every other kept hit is a validation hit; and a re-admitted
\* anchor takes part in the tally (its functions are scored).
C7_Readmission ==
    Called =>
        \A n \in Iterations :
            LET it == call.trace[n]
            IN it.filtered =>
                /\ (it.hit \in Range(it.new_hits)) <=> ShouldReadmit(it.hit)
                /\ Range(it.new_hits) \ {it.hit} \subseteq Range(call.new_hit_list)
                /\ (it.ret = "continue" /\ ShouldReadmit(it.hit)) =>
                       \A f \in Range(it.hit.functions) \ {""} :
                           f \in DOMAIN read.functions

\* C7 witness: the anchor hit is re-admitted beside a kept validation hit of
\* equal bitscore and the call ends with status function.
C7_Witness ==
    /\ EndedWithFunction
    /\ ShouldReadmit(LastIteration.hit)
    /\ LastIteration.hit \in Range(LastIteration.new_hits)
    /\ LastIteration.hit.bitscore = BestBitscore
    /\ InWindow # {}

\* C8: after a call that ends with status function, the read's hit list is
\* exactly the best-hit-per-function set: for every non-empty function of the
\* kept hits it holds a kept hit of highest bitscore carrying it, it holds no
\* other hit, and every hit has the read's own id as query id.
C8_BestHitPerFunction ==
    EndedWithFunction =>
        LET a == LastIteration.hit
        IN /\ \A f \in KeptFunctions(a) \ {""} :
                  \E i \in HitListIndex : \E h \in KeptSet(a) :
                      SameButQuery(read.hit_list[i], h) /\ IsBestFor(a, h, f)
           /\ \A i \in HitListIndex :
                  \E f \in KeptFunctions(a) \ {""} : \E h \in KeptSet(a) :
                      SameButQuery(read.hit_list[i], h) /\ IsBestFor(a, h, f)
           /\ \A i \in HitListIndex : read.hit_list[i].query_id = read.read_id

\* C8 witness: two functions get their best hits and a kept hit of lower
\* bitscore is not in the rebuilt list.
C8_Witness ==
    /\ EndedWithFunction
    /\ Len(read.hit_list) >= 2
    /\ \E h \in KeptSet(LastIteration.hit) :
          /\ "" \notin Range(h.functions)
          /\ \A i \in HitListIndex : ~SameButQuery(read.hit_list[i], h)

\* C9 as claimed: after a call that ends with status function, the taxonomy
\* id is the LCA of the taxon ids of the retained hits, those of the rebuilt
\* hit list.
C9_TaxonomyOfRetainedHits ==
    EndedWithFunction =>
        read.taxonomy =
            get_lca(LoadedNodes, LoadedNames,
                    SetToList({lookup_protein_tax(read.hit_list[i].subject_id) :
                                  i \in HitListIndex})).value

\* C9 as amended: after a call that ends with status function, the taxonomy
\* id is the LCA of the taxon ids of all kept hits (the validation hits in
\* the bitscore window and the re-admitted anchor hit), retained or not.
C9_TaxonomyOfKeptHits ==
    EndedWithFunction =>
        read.taxonomy =
            get_lca(LoadedNodes, LoadedNames,
                    SetToList({lookup_protein_tax(h.subject_id) :
                                  h \in KeptSet(LastIteration.hit)})).value

\* C9 witness: a kept hit that is not retained moves the LCA away from the
\* LCA of the retained hits.
C9_Witness ==
    /\ EndedWithFunction
    /\ read.taxonomy #
           get_lca(LoadedNodes, LoadedNames,
                   SetToList({lookup_protein_tax(read.hit_list[i].subject_id) :
                                 i \in HitListIndex})).value
    /\ Cardinality(KeptSet(LastIteration.hit)) > Len(read.hit_list)

\* C10: in every state reached by cross-validation groups, a read whose
\* status is not function has no taxonomy id assigned.
C10_TaxonomyOnlyWithFunction ==
    read.status # "function" => read.taxonomy = NoTaxonomy

(***************************************************************************)
(* Further claims about compare_hits_lca.                                  *)
(***************************************************************************)
\* The read's hit list, as the call found it, holds a hit at the interval
\* of the group.
IntervalMatches ==
    \E i \in 1..Len(call.pre.hit_list) :
        /\ call.pre.hit_list[i].q_start = call.hit_start
        /\ call.pre.hit_list[i].q_end = call.hit_end

\* C11: a compare_hits call whose interval is the (q_start, q_end) of no
\* hit of the read's current hit list is a no-op: the read's status,
\* functions, hit list and taxonomy id are unchanged, and the call returns.
C11_NoAnchorNoOp ==
    (Called /\ ~IntervalMatches) => (read = call.pre /\ call.ret = "return")

\* C11 happens: a group with validation hits, the best of them carrying a
\* function, reaches a read whose hit list was rebuilt by an earlier group
\* and holds no hit at the interval.
C11_Witness ==
    /\ Called /\ ~IntervalMatches
    /\ call.pre.status = "function"
    /\ call.new_hit_list # <<>>
    /\ ~BestIsSentinel

(***************************************************************************)
(* The streaming passes: parse_reference_output and the two                *)
(* parse_background_output variants.                                       *)
(***************************************************************************)
MaxRows == 3

\* config.get_identity_cutoff, get_length_cutoff, get_overlap_cutoff and the
\* bitscore range cutoff of the collection.
identity_cutoff == 50
length_cutoff == 30
overlap_cutoff == <<1, 2>>

\* Python's None for current_query_id and _hit_list, and a value held.
None == <<>>
Some(x) == <<x>>

\* str.endswith for a suffix of two characters.
endswith(line, c1, c2) ==
    /\ Len(line) >= 2
    /\ line[Len(line) - 1] = c1
    /\ line[Len(line)] = c2

\* str.split(' '): the tokens between single spaces, empty tokens included.
RECURSIVE split_spaces(_, _, _)
split_spaces(line, i, token) ==
    IF i > Len(line) THEN <<token>>
    ELSE IF line[i] = " " THEN <<token>> \o split_spaces(line, i + 1, <<>>)
    ELSE split_spaces(line, i + 1, Append(token, line[i]))

\* DiamondParser.parse_fastq_seqid on a header held as its characters.
\* ret is "raise" for the IndexError of end[0] on an empty second token.
parse_fastq_seqid(header) ==
    LET line == IF Len(header) > 0 /\ header[1] = "@" THEN Tail(header) ELSE header
        line_tokens == split_spaces(line, 1, <<>>)
        whole(id, end) == [read_id |-> id, end |-> end, ret |-> "return"]
        cut(t) == whole(SubSeq(t, 1, Len(t) - 2), <<t[Len(t)]>>)
    IN IF " " \in Range(line)
       THEN IF Len(line_tokens) = 2
            THEN IF line_tokens[2] = <<>>
                 THEN [read_id |-> <<>>, end |-> <<>>, ret |-> "raise"]
                 ELSE whole(line_tokens[1], <<line_tokens[2][1]>>)
            ELSE IF Len(line_tokens) = 3
            THEN IF endswith(line_tokens[1], ".", "1") \/ endswith(line_tokens[1], ".", "2")
                 THEN cut(line_tokens[1])
                 ELSE whole(line_tokens[1], <<>>)
            ELSE whole(line_tokens[1], <<>>)
       ELSE IF endswith(line, "/", "1") \/ endswith(line, "/", "2")
       THEN cut(line)
       ELSE IF endswith(line, ".", "1") \/ endswith(line, ".", "2")
       THEN cut(line)
       ELSE whole(line, <<>>)

\* DiamondHit.create_hit: the fields of a row; no function is attached yet.
create_hit(row) ==
    [query_id |-> row.query_id, subject_id |-> row.subject_id,
     identity |-> row.identity, length |-> row.length,
     q_start |-> row.q_start, q_end |-> row.q_end, bitscore |-> row.bitscore,
     functions |-> <<>>]

\* DiamondHitList.filter_list, overlap resolution.  The hits sorted by
\* descending bitscore, ties in their order of arrival.
\* A variant of insert_by_bitscore whose sort is not stable: a hit goes in
\* front of the hits of equal bitscore.
RECURSIVE insert_by_bitscore_unstable(_, _)
insert_by_bitscore_unstable(sorted, hit) ==
    IF sorted = <<>> THEN <<hit>>
    ELSE IF Head(sorted).bitscore > hit.bitscore
         THEN <<Head(sorted)>> \o insert_by_bitscore_unstable(Tail(sorted), hit)
         ELSE <<hit>> \o sorted

RECURSIVE insert_by_bitscore(_, _)
insert_by_bitscore(sorted, hit) ==
    IF sorted = <<>> THEN <<hit>>
    ELSE IF Head(sorted).bitscore >= hit.bitscore
         THEN <<Head(sorted)>> \o insert_by_bitscore(Tail(sorted), hit)
         ELSE <<hit>> \o sorted

RECURSIVE sort_by_bitscore(_, _, _)
sort_by_bitscore(hits, i, sorted) ==
    IF i > Len(hits) THEN sorted
    ELSE sort_by_bitscore(hits, i + 1, insert_by_bitscore(sorted, hits[i]))

Min2(a, b) == IF a <= b THEN a ELSE b
Max2(a, b) == IF a >= b THEN a ELSE b

\* Length of the intersection of the query intervals of two hits.
intersection_length(h1, h2) ==
    Max2(0, Min2(Max2(h1.q_start, h1.q_end), Max2(h2.q_start, h2.q_end))
            - Max2(Min2(h1.q_start, h1.q_end), Min2(h2.q_start, h2.q_end)) + 1)

interval_length(h) == Max2(h.q_start, h.q_end) - Min2(h.q_start, h.q_end) + 1

\* A variant of overlaps in which a fraction equal to the cutoff overlaps.
overlaps_or_equal(h1, h2, cutoff) ==
    intersection_length(h1, h2) * cutoff[2]
        >= cutoff[1] * Min2(interval_length(h1), interval_length(h2))

\* Overlap fraction (intersection over the shorter interval) above the cutoff.
overlaps(h1, h2, cutoff) ==
    intersection_length(h1, h2) * cutoff[2]
        > cutoff[1] * Min2(interval_length(h1), interval_length(h2))

\* Greedy acceptance: a candidate is rejected when it overlaps a kept hit.
RECURSIVE accept_hits(_, _, _, _)
accept_hits(sorted, i, kept, cutoff) ==
    IF i > Len(sorted) THEN kept
    ELSE IF \E k \in 1..Len(kept) : overlaps(sorted[i], kept[k], cutoff)
         THEN accept_hits(sorted, i + 1, kept, cutoff)
         ELSE accept_hits(sorted, i + 1, Append(kept, sorted[i]), cutoff)

filter_list(hits, cutoff) ==
    accept_hits(sort_by_bitscore(hits, 1, <<>>), 1, <<>>, cutoff)

\* hit_utils.compare_hits_erpk_lca: the steps of compare_hits_lca with a
\* normalization factor of 1 for the score; the taxonomy id is the LCA of
\* the taxon ids of the retained hits, and an empty kept set ends the call
\* with status function, no hit and the unknown taxon.  r is the outcome
\* of these steps up to the taxonomy.
erpk_lca_taxonomy(r) ==
    IF r.ret = "raise"
    THEN [read |-> [r.read EXCEPT !.hit_list = <<>>,
                                  !.taxonomy = get_lca(LoadedNodes, LoadedNames, <<>>).value],
          ret |-> "return"]
    ELSE IF r.trace # <<>> /\ r.trace[Len(r.trace)].ret = "continue"
    THEN [read |-> [r.read EXCEPT !.taxonomy =
                       get_lca(LoadedNodes, LoadedNames,
                               SetToList(collect_taxonomy_ids(r.read.hit_list))).value],
          ret |-> "return"]
    ELSE [read |-> r.read, ret |-> "return"]

compare_hits_erpk_lca(rd, hit_start, hit_end, new_hit_list, cutoff) ==
    erpk_lca_taxonomy(compare_hits_lca(rd, hit_start, hit_end, new_hit_list,
                                       cutoff, Zero, <<>>))

\* The working set with an entry set: self.reads[read_id] = read.
set_read(rds, read_id, rd) == (read_id :> rd) @@ rds

\* The key None of the dictionary import_hit_list returns for an empty file.
NoneKey == <<"None">>

\* An AnnotatedRead with its list of hits: read.hit_list = _hit_list.
read_with_hits(read_id, hits) ==
    [read_id |-> read_id, read_id_line |-> <<>>, status |-> "unprocessed",
     hit_list |-> hits, functions |-> <<>>, taxonomy |-> NoTaxonomy]

\* DiamondParser.import_hit_list: the working set read back from the table
\* of hits; an AnnotatedRead is stored when the read id changes and after
\* the last row (under the key None, without a hit list, for no row).
RECURSIVE import_hit_list(_, _, _, _, _)
import_hit_list(file, i, ret_val, current_read_id, hits) ==
    IF i > Len(file)
    THEN IF current_read_id = None
         THEN set_read(ret_val, NoneKey, read_with_hits(NoneKey, None))
         ELSE set_read(ret_val, current_read_id[1],
                       read_with_hits(current_read_id[1], hits))
    ELSE IF current_read_id = None
    THEN import_hit_list(file, i + 1, ret_val, Some(file[i].query_id), <<file[i]>>)
    ELSE IF current_read_id[1] # file[i].query_id
    THEN import_hit_list(file, i + 1,
             set_read(ret_val, current_read_id[1],
                      read_with_hits(current_read_id[1], hits)),
             Some(file[i].query_id), <<file[i]>>)
    ELSE import_hit_list(file, i + 1, ret_val, current_read_id, add_hit(hits, file[i]))

\* The composite id 'base|start|end' decoded: the last two tokens are the
\* interval, the tokens before them the id of the read.
decode_query_id(tokens) ==
    [read_id |-> SubSeq(tokens, 1, Len(tokens) - 2),
     hit_start |-> tokens[Len(tokens) - 1],
     hit_end |-> tokens[Len(tokens)]]

\* A variant of group_skipped in which the missing read ends the pass (a
\* KeyError that is not caught).
group_skipped_raise(rds, hits) == [reads |-> rds, hit_list |-> hits, ret |-> "raise"]

\* A group finalized without a change of the working set.
group_skipped(rds, hits) == [reads |-> rds, hit_list |-> hits, ret |-> "return"]

\* A group of the reference search finalized: the read is stored with the
\* hits left, annotated.
group_stored(rds, current, hits) ==
    [reads |-> set_read(rds, current, read_with_hits(current, hits)),
     hit_list |-> hits, ret |-> "return"]

\* A group of the background search finalized by a compare call r: the call
\* has changed the read of the working set in place.
group_compared(rds, read_id, hits, r) ==
    [reads |-> set_read(rds, read_id, r.read), hit_list |-> hits, ret |-> r.ret]

\* parse_reference_output, a new query id reached: overlapping hits are
\* removed, and a read is stored if any hit is left.
reference_finalize(rds, current, hits) ==
    IF Len(filter_list(hits, overlap_cutoff)) # 0
    THEN group_stored(rds, current, annotate_hits(filter_list(hits, overlap_cutoff)))
    ELSE group_skipped(rds, filter_list(hits, overlap_cutoff))

\* A variant of reference_finalize_eof that stores the hits unfiltered.
reference_finalize_eof_unfiltered(rds, current, hits) ==
    IF Len(hits) # 0
    THEN group_stored(rds, current, annotate_hits(hits))
    ELSE group_skipped(rds, hits)

\* parse_reference_output, EOF reached: the collected hits are processed
\* if there is any.
reference_finalize_eof(rds, current, hits) ==
    IF Len(hits) # 0
    THEN group_stored(rds, current, annotate_hits(filter_list(hits, overlap_cutoff)))
    ELSE group_skipped(rds, hits)

\* DiamondParser.parse_background_output, a new query id reached: the hits
\* are annotated and compared with the hit of the read; a KeyError for the
\* read is caught.
background_finalize(rds, current, hits, cutoff) ==
    IF decode_query_id(current).read_id \in DOMAIN rds
    THEN group_compared(rds, decode_query_id(current).read_id, annotate_hits(hits),
             compare_hits_erpk_lca(rds[decode_query_id(current).read_id],
                                   decode_query_id(current).hit_start,
                                   decode_query_id(current).hit_end,
                                   annotate_hits(hits), cutoff))
    ELSE group_skipped(rds, annotate_hits(hits))

\* A variant of background_finalize_eof that leaves the last group out.
background_finalize_eof_skip(rds, current_query_id, _hit_list, cutoff) ==
    group_skipped(rds, <<>>)

\* DiamondParser.parse_background_output, EOF reached.  _hit_list is None
\* when no row was read: annotate_hits on it raises AttributeError.
background_finalize_eof(rds, current_query_id, _hit_list, cutoff) ==
    IF _hit_list = None
    THEN [reads |-> rds, hit_list |-> <<>>, ret |-> "raise"]
    ELSE IF decode_query_id(current_query_id[1]).read_id \in DOMAIN rds
    THEN group_compared(rds, decode_query_id(current_query_id[1]).read_id,
             annotate_hits(_hit_list[1]),
             compare_hits_erpk_lca(rds[decode_query_id(current_query_id[1]).read_id],
                                   decode_query_id(current_query_id[1]).hit_start,
                                   decode_query_id(current_query_id[1]).hit_end,
                                   annotate_hits(_hit_list[1]), cutoff))
    ELSE group_skipped(rds, annotate_hits(_hit_list[1]))

\* parse_background_output of the protein pipeline, a new query id reached:
\* the hits are annotated and, if the protein is in the working set,
\* compared with its hit by compare_hits_lca.
pipeline_finalize(rds, current, hits, p) ==
    IF decode_query_id(current).read_id \in DOMAIN rds
    THEN group_compared(rds, decode_query_id(current).read_id, annotate_hits(hits),
             compare_hits_lca(rds[decode_query_id(current).read_id],
                              decode_query_id(current).hit_start,
                              decode_query_id(current).hit_end,
                              annotate_hits(hits), p.cutoff,
                              average_coverage_of(p.coverage_data), p.coverage_data))
    ELSE group_skipped(rds, annotate_hits(hits))

\* A variant of pipeline_finalize_eof that leaves the last group out.
pipeline_finalize_eof_skip(rds, current_query_id, _hit_list, p) ==
    group_skipped(rds, <<>>)

\* parse_background_output of the protein pipeline, after the loop.
\* _hit_list is None when no row was read: annotate_hits on it raises
\* AttributeError.
pipeline_finalize_eof(rds, current_query_id, _hit_list, p) ==
    IF _hit_list = None
    THEN [reads |-> rds, hit_list |-> <<>>, ret |-> "raise"]
    ELSE IF decode_query_id(current_query_id[1]).read_id \in DOMAIN rds
    THEN group_compared(rds, decode_query_id(current_query_id[1]).read_id,
             annotate_hits(_hit_list[1]),
             compare_hits_lca(rds[decode_query_id(current_query_id[1]).read_id],
                              decode_query_id(current_query_id[1]).hit_start,
                              decode_query_id(current_query_id[1]).hit_end,
                              annotate_hits(_hit_list[1]), p.cutoff,
                              average_coverage_of(p.coverage_data), p.coverage_data))
    ELSE group_skipped(rds, annotate_hits(_hit_list[1]))

\* A finalized group as the history keeps it.
Finalization(at, current, hits, pre, f) ==
    [at |-> at, id |-> current, hits |-> hits, pre |-> pre,
     post |-> f.reads, ret |-> f.ret]

\* A variant of below_cutoffs that also discards a row at a cutoff.
below_cutoffs_or_equal(hit) ==
    hit.identity <= identity_cutoff \/ hit.length <= length_cutoff

\* The filter by identity and length of the passes: strictly smaller values
\* are discarded.
below_cutoffs(hit) ==
    hit.identity < identity_cutoff \/ hit.length < length_cutoff

\* The locals and the working set after a row that was skipped or added to
\* the group in flight.
row_kept(rds, current, hits) ==
    [reads |-> rds, current_id |-> current, hit_list |-> hits,
     outcome |-> "running", fin |-> <<>>]

\* The locals and the working set after a row of a new query id: the group
\* in flight was finalized (f) and the row's hit starts the next group; a
\* raise inside the finalization ends the pass.
row_starts_group(rds, current, hits, hit, f) ==
    IF f.ret = "raise"
    THEN [reads |-> f.reads, current_id |-> Some(current), hit_list |-> Some(f.hit_list),
          outcome |-> "raised", fin |-> <<Finalization("row", current, hits, rds, f)>>]
    ELSE [reads |-> f.reads, current_id |-> Some(hit.query_id),
          hit_list |-> Some(add_hit(<<>>, hit)), outcome |-> "running",
          fin |-> <<Finalization("row", current, hits, rds, f)>>]

\* The hit of a row of the reference search: the query id is the read id
\* parse_fastq_seqid extracts.
reference_hit(row) ==
    create_hit([row EXCEPT !.query_id = parse_fastq_seqid(row.query_id).read_id])

\* One row of parse_reference_output.
reference_row(rds, current, hits, row) ==
    IF parse_fastq_seqid(row.query_id).ret = "raise"
    THEN [row_kept(rds, current, hits) EXCEPT !.outcome = "raised"]
    ELSE IF below_cutoffs(reference_hit(row)) THEN row_kept(rds, current, hits)
    ELSE IF reference_hit(row).query_id # current[1]
    THEN row_starts_group(rds, current[1], hits[1], reference_hit(row),
                          reference_finalize(rds, current[1], hits[1]))
    ELSE row_kept(rds, current, Some(add_hit(hits[1], reference_hit(row))))

\* One row of DiamondParser.parse_background_output, current_query_id and
\* _hit_list being set (from the row, if it is the first).
background_row_in_group(rds, current, hits, row, cutoff) ==
    IF below_cutoffs(create_hit(row)) THEN row_kept(rds, current, hits)
    ELSE IF row.query_id # current[1]
    THEN row_starts_group(rds, current[1], hits[1], create_hit(row),
                          background_finalize(rds, current[1], hits[1], cutoff))
    ELSE row_kept(rds, current, Some(add_hit(hits[1], create_hit(row))))

\* One row of DiamondParser.parse_background_output.
background_row(rds, current, hits, row, cutoff) ==
    IF current = None
    THEN background_row_in_group(rds, Some(row.query_id), Some(<<>>), row, cutoff)
    ELSE background_row_in_group(rds, current, hits, row, cutoff)

\* One row of parse_background_output of the protein pipeline,
\* current_query_id and _hit_list being set.
pipeline_row_in_group(rds, current, hits, row, p) ==
    IF below_cutoffs(create_hit(row)) THEN row_kept(rds, current, hits)
    ELSE IF row.query_id # current[1]
    THEN row_starts_group(rds, current[1], hits[1], create_hit(row),
                          pipeline_finalize(rds, current[1], hits[1], p))
    ELSE row_kept(rds, current, Some(add_hit(hits[1], create_hit(row))))

\* One row of parse_background_output of the protein pipeline.
pipeline_row(rds, current, hits, row, p) ==
    IF current = None
    THEN pipeline_row_in_group(rds, Some(row.query_id), Some(<<>>), row, p)
    ELSE pipeline_row_in_group(rds, current, hits, row, p)

(***************************************************************************)
(* The data of the streaming behaviours.                                   *)
(***************************************************************************)
Row(query_id, subject_id, identity, length, q_start, q_end, bitscore) ==
    [query_id |-> query_id, subject_id |-> subject_id, identity |-> identity,
     length |-> length, q_start |-> q_start, q_end |-> q_end, bitscore |-> bitscore]

\* Query ids of the reference search: r1, r2 and r1/1.
ReferenceIds == {<<"r", "1">>, <<"r", "2">>, <<"r", "1", "/", "1">>}

\* Rows of the reference search: a hit, a hit at both cutoffs that overlaps
\* it, a hit on another region, and a hit below the identity cutoff.
ReferenceRows ==
    UNION {{Row(q, "S1", 90, 40, 1, 40, 50),
            Row(q, "S2", identity_cutoff, length_cutoff, 20, 49, 48),
            Row(q, "S4", 90, 100, 50, 150, 46),
            Row(q, "S3", identity_cutoff - 1, 40, 1, 40, 60)} : q \in ReferenceIds}

\* Composite ids of the background search: the two regions of Q1 and a
\* region of a read that is not in the working set.
BackgroundIds == {<<"Q1", 50, 150>>, <<"Q1", 1, 40>>, <<"Q9", 1, 40>>}

\* Rows of the background search: a hit with a function, a better hit
\* without one, and a hit below the length cutoff.
BackgroundRows ==
    UNION {{Row(q, "S1", 90, 40, 1, 40, 50),
            Row(q, "S3", 90, 40, 1, 40, 60),
            Row(q, "S2", 90, length_cutoff - 1, 5, 30, 48)} : q \in BackgroundIds}

\* The working set the reference pass and the sequence import leave.
AnchorReads == (AnchorRead.read_id :> AnchorRead)

\* Tables of hits export_hit_list may have left: none, or the hits of Q1.
HitListFiles == {<<>>, AnchorRead.hit_list}

DefaultParams == [cutoff |-> <<1, 10>>, coverage_data |-> NoCoverage]

(***************************************************************************)
(* The passes, row by row.                                                 *)
(***************************************************************************)
InitPass ==
    /\ taxonomy_data = LoadedTaxonomy
    /\ mode \in {"reference", "background", "pipeline"}
    /\ params \in (IF mode = "pipeline" THEN Params ELSE {DefaultParams})
    /\ reads \in (IF mode = "reference" THEN {<<>>} ELSE {<<>>, AnchorReads})
    /\ rows \in SeqsUpTo(IF mode = "reference" THEN ReferenceRows ELSE BackgroundRows,
                         MaxRows)
    /\ stream = [rows |-> rows, reads |-> reads]
    /\ current_id = None
    /\ hit_list = None
    /\ outcome = "ready"
    /\ finalized = <<>>
    /\ read = AnchorRead
    /\ call = NoCall
    /\ log = <<>>

ReferenceStart ==
    /\ mode = "reference" /\ outcome = "ready"
    /\ current_id' = Some(<<>>)
    /\ hit_list' = Some(<<>>)
    /\ outcome' = "running"
    /\ UNCHANGED <<taxonomy_data, params, read, call, log, mode, reads, rows, finalized, stream>>

BackgroundStart ==
    /\ mode = "background" /\ outcome = "ready"
    /\ IF DOMAIN reads = {}
       THEN \E file \in HitListFiles :
               reads' = import_hit_list(file, 1, <<>>, None, None)
       ELSE reads' = reads
    /\ current_id' = None
    /\ hit_list' = None
    /\ outcome' = "running"
    /\ UNCHANGED <<taxonomy_data, params, read, call, log, mode, rows, finalized, stream>>

PipelineStart ==
    /\ mode = "pipeline" /\ outcome = "ready"
    /\ current_id' = None
    /\ hit_list' = None
    /\ outcome' = "running"
    /\ UNCHANGED <<taxonomy_data, params, read, call, log, mode, reads, rows, finalized, stream>>

\* The state after a row, from the result r of the row's step.
AfterRow(r) ==
    /\ reads' = r.reads
    /\ current_id' = r.current_id
    /\ hit_list' = r.hit_list
    /\ outcome' = r.outcome
    /\ finalized' = finalized \o r.fin
    /\ rows' = Tail(rows)
    /\ UNCHANGED <<taxonomy_data, params, read, call, log, mode, stream>>

ReferenceRow ==
    /\ mode = "reference" /\ outcome = "running" /\ rows # <<>>
    /\ AfterRow(reference_row(reads, current_id, hit_list, Head(rows)))

BackgroundRow ==
    /\ mode = "background" /\ outcome = "running" /\ rows # <<>>
    /\ AfterRow(background_row(reads, current_id, hit_list, Head(rows), params.cutoff))

PipelineRow ==
    /\ mode = "pipeline" /\ outcome = "running" /\ rows # <<>>
    /\ AfterRow(pipeline_row(reads, current_id, hit_list, Head(rows), params))

\* The state after the code that follows the loop, from the result f of
\* the finalization it makes.
AfterEOF(f) ==
    /\ reads' = f.reads
    /\ hit_list' = IF f.ret = "raise" THEN hit_list ELSE Some(f.hit_list)
    /\ outcome' = IF f.ret = "raise" THEN "raised" ELSE "returned"
    /\ finalized' = IF current_id = None THEN finalized
                    ELSE Append(finalized,
                           Finalization("eof", current_id[1], hit_list[1], reads, f))
    /\ UNCHANGED <<taxonomy_data, params, read, call, log, mode, rows, current_id, stream>>

ReferenceEOF ==
    /\ mode = "reference" /\ outcome = "running" /\ rows = <<>>
    /\ AfterEOF(reference_finalize_eof(reads, current_id[1], hit_list[1]))

BackgroundEOF ==
    /\ mode = "background" /\ outcome = "running" /\ rows = <<>>
    /\ AfterEOF(background_finalize_eof(reads, current_id, hit_list, params.cutoff))

PipelineEOF ==
    /\ mode = "pipeline" /\ outcome = "running" /\ rows = <<>>
    /\ AfterEOF(pipeline_finalize_eof(reads, current_id, hit_list, params))

NextPass ==
    \/ ReferenceStart \/ ReferenceRow \/ ReferenceEOF
    \/ BackgroundStart \/ BackgroundRow \/ BackgroundEOF
    \/ PipelineStart \/ PipelineRow \/ PipelineEOF

PassSpec == InitPass /\ [][NextPass]_vars

(***************************************************************************)
(* Claims about the passes.                                                *)
(***************************************************************************)
PassEnded == outcome \in {"returned", "raised"}

\* What the finalization of an interior group (a row of a new query id
\* follows) does with the group and the working set of a finalization f.
AsInteriorGroup(f) ==
    CASE mode = "reference" -> reference_finalize(f.pre, f.id, f.hits)
      [] mode = "background" -> background_finalize(f.pre, f.id, f.hits, params.cutoff)
      [] mode = "pipeline" -> pipeline_finalize(f.pre, f.id, f.hits, params)

EOFFinalizations == {k \in 1..Len(finalized) : finalized[k].at = "eof"}

\* C2: each pass, run on a stream of zero rows, returns normally without
\* raising and leaves the working set and every read in it unchanged.
C2_EmptyStreamTolerated ==
    (stream.rows = <<>> /\ PassEnded) =>
        (outcome = "returned" /\ reads = stream.reads)

\* C3: in each pass the group in flight at the end of the stream is
\* finalized exactly like an interior group: the working set after it
\* (entry created or read mutated, hit list, status) and the way the
\* finalization ends are those the same group and working set give when a
\* row of a further query follows.
C3_LastGroupLikeInterior ==
    \A k \in EOFFinalizations :
        /\ finalized[k].post = AsInteriorGroup(finalized[k]).reads
        /\ finalized[k].ret = AsInteriorGroup(finalized[k]).ret

\* C3 happens: a stream of several groups in which an interior group and
\* the last group both changed the working set, the last one giving its
\* read a function.
C3_Witness ==
    /\ mode = "pipeline" /\ outcome = "returned"
    /\ \E j, k \in 1..Len(finalized) :
          /\ j < k
          /\ finalized[j].at = "row" /\ finalized[j].post # finalized[j].pre
          /\ finalized[k].at = "eof" /\ finalized[k].post # finalized[k].pre
          /\ finalized[k].hits # <<>>
          /\ finalized[k].post[<<"Q1">>].status = "function"
          /\ finalized[k].pre[<<"Q1">>].status # "function"

\* The finalizations of a background pass whose group names a read that is
\* not a key of the working set.
GroupsOfMissingReads ==
    {k \in 1..Len(finalized) :
        /\ mode \in {"background", "pipeline"}
        /\ decode_query_id(finalized[k].id).read_id \notin DOMAIN finalized[k].pre}

ContiguouslyGrouped(rws) ==
    \A i, j, k \in 1..Len(rws) :
        (i < j /\ j < k /\ rws[i].query_id = rws[k].query_id)
            => rws[j].query_id = rws[i].query_id

\* The rows of the stream with read id q that pass both cutoffs.
PassingRows(q) ==
    {i \in 1..Len(stream.rows) :
        /\ parse_fastq_seqid(stream.rows[i].query_id).read_id = q
        /\ stream.rows[i].identity >= identity_cutoff
        /\ stream.rows[i].length >= length_cutoff}

\* The hit is the hit of row i.
HitOfRow(hit, i) ==
    /\ hit.subject_id = stream.rows[i].subject_id
    /\ hit.identity = stream.rows[i].identity
    /\ hit.length = stream.rows[i].length
    /\ hit.q_start = stream.rows[i].q_start
    /\ hit.q_end = stream.rows[i].q_end
    /\ hit.bitscore = stream.rows[i].bitscore

ReferencePassDone ==
    mode = "reference" /\ outcome = "returned" /\ ContiguouslyGrouped(stream.rows)

\* C13: after the reference pass over a contiguously grouped input a read
\* id is a key of the working set exactly when one of its rows has identity
\* >= identity_cutoff and length >= length_cutoff, and the hit list of every
\* entry is non-empty and holds only hits of rows that passed both cutoffs.
C13_KeysAreQueriesWithPassingRows ==
    ReferencePassDone =>
        /\ \A i \in 1..Len(stream.rows) :
              LET q == parse_fastq_seqid(stream.rows[i].query_id).read_id
              IN  q \in DOMAIN reads <=> PassingRows(q) # {}
        /\ \A q \in DOMAIN reads :
              /\ PassingRows(q) # {}
              /\ reads[q].hit_list # <<>>
              /\ \A h \in 1..Len(reads[q].hit_list) :
                    /\ reads[q].hit_list[h].query_id = q
                    /\ \E i \in PassingRows(q) : HitOfRow(reads[q].hit_list[h], i)

\* C13 happens: a read whose only row is exactly at both cutoffs is a key,
\* and a read whose only row is below the identity cutoff is not.
C13_Witness ==
    /\ ReferencePassDone
    /\ \E i, j \in 1..Len(stream.rows) :
          LET q == parse_fastq_seqid(stream.rows[i].query_id).read_id
              p == parse_fastq_seqid(stream.rows[j].query_id).read_id
          IN  /\ PassingRows(q) = {i}
              /\ stream.rows[i].identity = identity_cutoff
              /\ stream.rows[i].length = length_cutoff
              /\ q \in DOMAIN reads
              /\ PassingRows(p) = {}
              /\ p \notin DOMAIN reads


(***************************************************************************)
(* DiamondHitList.filter_list on lists of hits of one query.  hit_list is  *)
(* the list of the DiamondHitList, params its overlap cutoff, and log the  *)
(* list before and after each filter_list.                                 *)
(***************************************************************************)
MaxListed == 3
MaxFilterings == 2

\* Hits of one query: S1 and S2 overlap by 31/50, S2 and S3 by 41/51, S1 and
\* S3 are apart, S4 has the bitscore of S3 and is apart from it, and S5
\* overlaps S1 by exactly one half.
FilterHits ==
    {Hit(<<"Q1">>, "S1", 1, 50, 100), Hit(<<"Q1">>, "S2", 20, 100, 90),
     Hit(<<"Q1">>, "S3", 60, 110, 80), Hit(<<"Q1">>, "S4", 111, 150, 80),
     Hit(<<"Q1">>, "S5", 26, 125, 70)}

FilterCutoffs == {overlap_cutoff, <<3, 4>>, <<0, 1>>}

InitFilter ==
    /\ taxonomy_data = LoadedTaxonomy
    /\ mode = "filter"
    /\ params \in {[overlap_cutoff |-> c] : c \in FilterCutoffs}
    /\ hit_list = <<>>
    /\ log = <<>>
    /\ reads = <<>>
    /\ rows = <<>>
    /\ stream = [rows |-> <<>>, reads |-> <<>>]
    /\ current_id = None
    /\ outcome = "ready"
    /\ finalized = <<>>
    /\ read = AnchorRead
    /\ call = NoCall

\* DiamondHitList.add_hit, one more hit of the query (of another subject).
AddHit ==
    /\ mode = "filter" /\ log = <<>> /\ Len(hit_list) < MaxListed
    /\ \E hit \in FilterHits :
          /\ \A i \in 1..Len(hit_list) : hit_list[i].subject_id # hit.subject_id
          /\ hit_list' = add_hit(hit_list, hit)
    /\ UNCHANGED <<taxonomy_data, params, read, call, log, mode, reads, rows, current_id,
                   outcome, finalized, stream>>

\* DiamondHitList.filter_list(overlap_cutoff), in place.
FilterList ==
    /\ mode = "filter" /\ Len(log) < MaxFilterings
    /\ hit_list' = filter_list(hit_list, params.overlap_cutoff)
    /\ log' = Append(log, [input |-> hit_list, result |-> hit_list'])
    /\ UNCHANGED <<taxonomy_data, params, read, call, mode, reads, rows, current_id,
                   outcome, finalized, stream>>

NextFilter == AddHit \/ FilterList

FilterSpec == InitFilter /\ [][NextFilter]_vars

\* The overlap fraction of two hits, intersection over the shorter
\* interval, as a rational; the coordinates of an interval are inclusive.
OverlapFraction(h1, h2) ==
    LET lo(h) == IF h.q_start <= h.q_end THEN h.q_start ELSE h.q_end
        hi(h) == IF h.q_start <= h.q_end THEN h.q_end ELSE h.q_start
        len(h) == hi(h) - lo(h) + 1
        from == IF lo(h1) >= lo(h2) THEN lo(h1) ELSE lo(h2)
        to == IF hi(h1) <= hi(h2) THEN hi(h1) ELSE hi(h2)
    IN <<IF to >= from THEN to - from + 1 ELSE 0,
         IF len(h1) <= len(h2) THEN len(h1) ELSE len(h2)>>

ExceedsCutoff(h1, h2, cutoff) ==
    OverlapFraction(h1, h2)[1] * cutoff[2] > cutoff[1] * OverlapFraction(h1, h2)[2]

\* Hit i of the list comes before hit j in the order of descending
\* bitscore, hits of equal bitscore in their order in the list.
Precedes(list, i, j) ==
    \/ list[i].bitscore > list[j].bitscore
    \/ list[i].bitscore = list[j].bitscore /\ i < j

\* C14 as stated: of two hits of the input whose overlap fraction exceeds
\* the cutoff the one of lower bitscore is not in the result, and two hits
\* whose overlap fraction is at most the cutoff are both in the result.
C14_PairwiseResolution ==
    \A k \in 1..Len(log) : \A i, j \in 1..Len(log[k].input) :
        LET hi == log[k].input[i]
            hj == log[k].input[j]
        IN  /\ (ExceedsCutoff(hi, hj, params.overlap_cutoff) /\ hi.bitscore > hj.bitscore)
                  => hj \notin Range(log[k].result)
            /\ (i # j /\ ~ExceedsCutoff(hi, hj, params.overlap_cutoff))
                  => (hi \in Range(log[k].result) /\ hj \in Range(log[k].result))

\* C14: of two hits of the input whose overlap fraction exceeds the cutoff
\* at most one is in the result; a hit is in the result exactly when its
\* overlap fraction with every hit of the result that precedes it (higher
\* bitscore, or equal bitscore and earlier in the input) is at most the
\* cutoff; and for an input of two hits of different bitscores the result
\* is as C14 states: the lower one is dropped when the fraction exceeds the
\* cutoff, and both are kept when it does not.
C14_GreedyResolution ==
    \A k \in 1..Len(log) :
        LET in == log[k].input
            res == Range(log[k].result)
            c == params.overlap_cutoff
        IN  /\ res \subseteq Range(in)
            /\ \A i, j \in 1..Len(in) :
                  (i # j /\ ExceedsCutoff(in[i], in[j], c))
                      => ~(in[i] \in res /\ in[j] \in res)
            /\ \A j \in 1..Len(in) :
                  in[j] \in res <=>
                      \A i \in 1..Len(in) :
                          (in[i] \in res /\ Precedes(in, i, j))
                              => ~ExceedsCutoff(in[i], in[j], c)
            /\ (Len(in) = 2 /\ in[1].bitscore # in[2].bitscore) =>
                  LET best == IF in[1].bitscore > in[2].bitscore THEN 1 ELSE 2
                  IN  IF ExceedsCutoff(in[1], in[2], c)
                      THEN res = {in[best]}
                      ELSE res = {in[1], in[2]}

\* C14 happens: of three hits the second overlaps the first and the third
\* overlaps the second; the second is rejected and the third, of lower
\* bitscore than the second, is in the result.
C14_Witness ==
    \E k \in 1..Len(log) : \E i, j \in 1..Len(log[k].input) :
        LET in == log[k].input
        IN  /\ Len(in) = 3
            /\ ExceedsCutoff(in[i], in[j], params.overlap_cutoff)
            /\ in[i].bitscore > in[j].bitscore
            /\ in[i] \notin Range(log[k].result)
            /\ in[j] \in Range(log[k].result)
            /\ Len(log[k].result) = 2


\* C15: filter_list is idempotent: applied to its own result with the same
\* cutoff it leaves the list as it is, the same hits in the same order.
C15_FilterListIdempotent ==
    /\ \A k \in 2..Len(log) :
          log[k].input = log[k - 1].result /\ log[k].result = log[k].input
    /\ log # <<>> => filter_list(hit_list, params.overlap_cutoff) = hit_list

\* C15 happens: a list of three hits from which the first filter_list
\* dropped a hit and moved another was filtered a second time.
C15_Witness ==
    /\ Len(log) = 2
    /\ Len(log[1].input) = 3
    /\ Len(log[1].result) = 2
    /\ log[1].result # SubSeq(log[1].input, 1, 2)
    /\ log[1].result # SubSeq(log[1].input, 2, 3)
    /\ log[2].result = log[1].result


(***************************************************************************)
(* The TaxonomyData instance: load_taxdata on the feeds the options name,  *)
(* then one read operation on a list of taxonomy ids.  call is the read    *)
(* operation, with the tables before it.                                   *)
(***************************************************************************)
MaxIds == 3

\* The standard tree and a genus K whose parent P is in no feed.
OrphanOptions ==
    Options(Append(StandardNames, NameRow("K", "k", "scientific name")),
            Append(StandardNodes, NodeRow("K", "P", "genus")), <<>>)

\* The standard tree, the old id M merged into C, and an old id merged
\* into an id that has no name.
MergedOptions ==
    Options(StandardNames, StandardNodes, <<MergedRow("M", "C"), MergedRow("N", "Z")>>)

\* The standard tree without a scientific name for A.
UnnamedOptions ==
    Options(<<NameRow("1", "root", "scientific name"), NameRow("A", "a", "synonym")>>
                \o SubSeq(StandardNames, 4, Len(StandardNames)),
            StandardNodes, <<>>)

\* The standard tree and two species S and T of the genus C.
SpeciesOptions ==
    Options(StandardNames \o <<NameRow("S", "s", "scientific name"),
                               NameRow("T", "t", "scientific name")>>,
            StandardNodes \o <<NodeRow("S", "C", "species"), NodeRow("T", "C", "species")>>,
            <<>>)

\* Names without a scientific name.
NoNamesOptions == Options(<<NameRow("1", "all", "synonym")>>, StandardNodes, <<>>)

\* An old id merged into an id that has a name and no node.
MergedNoNodeOptions ==
    Options(Append(StandardNames, NameRow("Z", "z", "scientific name")),
            StandardNodes, <<MergedRow("M", "Z")>>)

TaxonomyOptions ==
    {StandardOptions, OrphanOptions, MergedOptions, UnnamedOptions, SpeciesOptions,
     NoNamesOptions, MergedNoNodeOptions}

\* Ids given to the read operations: the empty id, the unknown id, the
\* root, ids of the standard tree, the orphan, the merged id, the species,
\* and an id that is in no feed.
TaxonomyIds == {"", "0", "1", "A", "B", "C", "E", "H", "K", "M", "S", "T", "X"}

InitTaxonomy ==
    /\ mode = "taxonomy"
    /\ params \in TaxonomyOptions
    /\ taxonomy_data = [names |-> <<>>, nodes |-> <<>>]
    /\ outcome = "ready"
    /\ call = NoCall
    /\ log = <<>>
    /\ reads = <<>>
    /\ rows = <<>>
    /\ stream = [rows |-> <<>>, reads |-> <<>>]
    /\ current_id = None
    /\ hit_list = None
    /\ finalized = <<>>
    /\ read = AnchorRead

AfterLoad(loaded) ==
    /\ taxonomy_data' = [names |-> loaded.names, nodes |-> loaded.nodes]
    /\ outcome' = IF loaded.ret = "raise" THEN "raised" ELSE "loaded"

LoadTaxdata ==
    /\ mode = "taxonomy" /\ outcome \in {"ready", "constructed"}
    /\ AfterLoad(load_taxdata(params))
    /\ UNCHANGED <<params, read, call, log, mode, reads, rows, current_id, hit_list,
                   finalized, stream>>

\* TaxonomyData(options) once the instance exists and is loaded, as
\* DiamondParser.__init__ calls it when it is given no taxonomy_data:
\* __new__ returns the instance of the class and __init__ runs on it again.
\* log keeps the tables that the holders of the instance had.
TaxonomyData ==
    /\ mode = "taxonomy" /\ outcome = "loaded" /\ call = NoCall
    /\ log' = <<taxonomy_data>>
    /\ taxonomy_data' = [names |-> <<>>, nodes |-> <<>>]
    /\ outcome' = "constructed"
    /\ UNCHANGED <<params, read, call, mode, reads, rows, current_id, hit_list,
                   finalized, stream>>

\* The state after a read operation with outcome r.
AfterRead(op, taxonomy_id_list, r) ==
    /\ call' = [op |-> op, taxonomy_id_list |-> taxonomy_id_list, ret |-> r.ret,
                value |-> r.value, pre |-> taxonomy_data]
    /\ taxonomy_data' = [taxonomy_data EXCEPT !.nodes = r.nodes]
    /\ UNCHANGED <<params, read, log, mode, reads, rows, current_id, hit_list,
                   outcome, finalized, stream>>

GetLca ==
    /\ mode = "taxonomy" /\ outcome = "loaded" /\ call = NoCall
    /\ \E taxonomy_id_list \in SeqsUpTo(TaxonomyIds, MaxIds) :
          AfterRead("get_lca", taxonomy_id_list,
                    get_lca(taxonomy_data.nodes, DOMAIN taxonomy_data.names,
                            taxonomy_id_list))

GetLca2 ==
    /\ mode = "taxonomy" /\ outcome = "loaded" /\ call = NoCall
    /\ \E taxonomy_id_list \in SeqsUpTo(TaxonomyIds, MaxIds) :
          AfterRead("get_lca2", taxonomy_id_list,
                    get_lca2(taxonomy_data.nodes, taxonomy_id_list))

GetUpperLevelTaxon ==
    /\ mode = "taxonomy" /\ outcome = "loaded" /\ call = NoCall
    /\ \E taxonomy_id \in TaxonomyIds :
          AfterRead("get_upper_level_taxon", <<taxonomy_id>>,
                    get_upper_level_taxon(taxonomy_data.nodes,
                                          DOMAIN taxonomy_data.names, taxonomy_id))

GetTaxonomyRank ==
    /\ mode = "taxonomy" /\ outcome = "loaded" /\ call = NoCall
    /\ \E taxonomy_id \in TaxonomyIds :
          AfterRead("get_taxonomy_rank", <<taxonomy_id>>,
                    get_taxonomy_rank(taxonomy_data.nodes, taxonomy_id))

\* The state after a read operation that reads both tables.
AfterLineage(op, taxonomy_id, r) ==
    /\ call' = [op |-> op, taxonomy_id_list |-> <<taxonomy_id>>, ret |-> r.ret,
                value |-> r.value, pre |-> taxonomy_data]
    /\ taxonomy_data' = [names |-> r.names, nodes |-> r.nodes]
    /\ UNCHANGED <<params, read, log, mode, reads, rows, current_id, hit_list,
                   outcome, finalized, stream>>

GetLineageString ==
    /\ mode = "taxonomy" /\ outcome = "loaded" /\ call = NoCall
    /\ \E taxonomy_id \in TaxonomyIds :
          AfterLineage("get_lineage_string", taxonomy_id,
                       get_lineage_string(taxonomy_data.names, taxonomy_data.nodes,
                                          taxonomy_id))

GetTaxonomyLineage ==
    /\ mode = "taxonomy" /\ outcome = "loaded" /\ call = NoCall
    /\ \E taxonomy_id \in TaxonomyIds :
          AfterLineage("get_taxonomy_lineage", taxonomy_id,
                       get_taxonomy_lineage(taxonomy_data.names, taxonomy_data.nodes,
                                            taxonomy_id))

NextTaxonomy ==
    \/ LoadTaxdata
    \/ TaxonomyData
    \/ GetLca
    \/ GetLca2
    \/ GetUpperLevelTaxon
    \/ GetTaxonomyRank
    \/ GetLineageString
    \/ GetTaxonomyLineage

TaxonomySpec == InitTaxonomy /\ [][NextTaxonomy]_vars


\* A read operation op has been applied to the loaded tables.
ReadCalled(op) == mode = "taxonomy" /\ call.ret # "none" /\ call.op = op

\* The ids of the list of the call that are keys of the node table.
PresentIds == {call.taxonomy_id_list[i] : i \in 1..Len(call.taxonomy_id_list)}
                  \cap DOMAIN call.pre.nodes

\* The ancestors of an id of the tree below the root, the id included.
RECURSIVE AncestorsOrSelf(_, _)
AncestorsOrSelf(nodes, x) ==
    IF x = ROOT_TAXONOMY_ID \/ ~has_field(nodes, x, "parent") THEN {}
    ELSE {x} \cup AncestorsOrSelf(nodes, nodes[x].parent)

\* The common ancestors-or-self below the root of a set of ids of the tree.
CommonAncestors(nodes, ids) ==
    {c \in DOMAIN nodes : \A t \in ids : c \in AncestorsOrSelf(nodes, t)}

\* The deepest of a non-empty set of common ancestors.
Deepest(nodes, common) ==
    CHOOSE c \in common : common \subseteq AncestorsOrSelf(nodes, c)

\* get_lca has been applied to two distinct ids of the tree that have a
\* common ancestor-or-self below the root.
LcaOfPair ==
    /\ ReadCalled("get_lca")
    /\ Len(call.taxonomy_id_list) = 2
    /\ call.taxonomy_id_list[1] # call.taxonomy_id_list[2]
    /\ PresentIds = {call.taxonomy_id_list[1], call.taxonomy_id_list[2]}
    /\ CommonAncestors(call.pre.nodes, PresentIds) # {}

\* C16: get_lca of two distinct ids of the tree that have a common
\* ancestor-or-self below the root returns the deepest common
\* ancestor-or-self, also for ids that are children of the root.
C16_DeepestCommonAncestor ==
    LcaOfPair =>
        /\ call.ret = "return"
        /\ call.value = Deepest(call.pre.nodes,
                                CommonAncestors(call.pre.nodes, PresentIds))


\* The distinct non-empty ids of the list of the call.
NonEmptyIds ==
    {call.taxonomy_id_list[i] : i \in 1..Len(call.taxonomy_id_list)} \ {""}

\* C17: get_lca on a list whose distinct non-empty ids are one id x of the
\* tree (x alone, x repeated, or x with empty ids) returns x, for the
\* unknown id too; on a list that holds only empty ids it returns the
\* unknown id.
C17_LcaOfOneId ==
    (ReadCalled("get_lca") /\ call.taxonomy_id_list # <<>>) =>
        /\ (Cardinality(NonEmptyIds) = 1 /\ NonEmptyIds \subseteq DOMAIN call.pre.nodes)
              => (call.ret = "return" /\ NonEmptyIds = {call.value})
        /\ NonEmptyIds = {}
              => (call.ret = "return" /\ call.value = UNKNOWN_TAXONOMY_ID)


\* The list of the call without the ids that are no keys of the node table.
RECURSIVE Restricted(_, _)
Restricted(taxonomy_id_list, nodes) ==
    IF taxonomy_id_list = <<>> THEN <<>>
    ELSE IF Head(taxonomy_id_list) \in DOMAIN nodes
    THEN <<Head(taxonomy_id_list)>> \o Restricted(Tail(taxonomy_id_list), nodes)
    ELSE Restricted(Tail(taxonomy_id_list), nodes)

HasAbsentId ==
    \E i \in 1..Len(call.taxonomy_id_list) :
        call.taxonomy_id_list[i] \notin DOMAIN call.pre.nodes

\* C18: get_lca on a list that holds ids absent from the tree returns
\* normally, and returns what get_lca returns for the list without the
\* absent ids: the unknown id when no id of the list is in the tree.
C18_AbsentIdsSkipped ==
    (ReadCalled("get_lca") /\ HasAbsentId) =>
        /\ call.ret = "return"
        /\ call.value =
              get_lca(call.pre.nodes, DOMAIN call.pre.names,
                      Restricted(call.taxonomy_id_list, call.pre.nodes)).value


\* The taxa of canonical rank RANKS[r] in the lineages (the ids and their
\* ancestors below the root) of the ids of the call.
RepresentedAt(r) ==
    {c \in UNION {AncestorsOrSelf(call.pre.nodes, t) : t \in PresentIds} :
        call.pre.nodes[c].rank = RANKS[r]}

\* The canonical ranks below norank at which exactly one taxon is represented.
ConsensusRanks == {r \in 2..Len(RANKS) : Cardinality(RepresentedAt(r)) = 1}

SetMax(S) == CHOOSE m \in S : \A x \in S : m >= x

\* get_lca2 has been applied to two or more ids, all of them in the tree.
Lca2OfPresentIds ==
    /\ ReadCalled("get_lca2")
    /\ Len(call.taxonomy_id_list) >= 2
    /\ \A i \in 1..Len(call.taxonomy_id_list) :
          call.taxonomy_id_list[i] \in DOMAIN call.pre.nodes

\* C19: get_lca2 on two or more ids of the tree returns the taxon of the
\* most specific canonical rank at which exactly one taxon is represented
\* in the lineages of the ids, also when a less specific canonical rank is
\* missing from the lineages or holds several taxa.
C19_MostSpecificConsensusRank ==
    (Lca2OfPresentIds /\ ConsensusRanks # {}) =>
        /\ call.ret = "return"
        /\ RepresentedAt(SetMax(ConsensusRanks)) = {call.value}


\* load_taxdata has completed and no read operation has been applied yet.
JustLoaded == mode = "taxonomy" /\ outcome = "loaded" /\ call = NoCall

\* C20: after load_taxdata has completed, every node other than the root
\* has a parent that is a key of the node table (a parent missing from the
\* feeds having been replaced by the unknown id), and the unknown id is a
\* node whose parent is the root.
C20_ParentsAreNodes ==
    JustLoaded =>
        /\ \A t \in DOMAIN taxonomy_data.nodes \ {ROOT_TAXONOMY_ID} :
              /\ has_field(taxonomy_data.nodes, t, "parent")
              /\ taxonomy_data.nodes[t].parent \in DOMAIN taxonomy_data.nodes
        /\ has_field(taxonomy_data.nodes, UNKNOWN_TAXONOMY_ID, "parent")
        /\ taxonomy_data.nodes[UNKNOWN_TAXONOMY_ID].parent = ROOT_TAXONOMY_ID

\* A read operation of the taxonomy has been applied to the loaded tables.
AfterReadOperation == mode = "taxonomy" /\ call.ret # "none"

\* C21: once load_taxdata has completed, a read operation (get_lca, get_lca2,
\* get_upper_level_taxon, get_taxonomy_rank, get_taxonomy_lineage,
\* get_lineage_string), with any argument, leaves the names and nodes tables
\* as they were before the call.
C21_ReadOperationsLeaveTables == AfterReadOperation => taxonomy_data = call.pre

\* TaxonomyData(options) has been called again on the loaded instance and
\* load_taxdata has not run since.
ConstructedAgain == mode = "taxonomy" /\ outcome = "constructed"

\* C27: calling the TaxonomyData constructor a second time after the tree
\* has been loaded leaves the names and nodes tables of the instance as
\* they were loaded.
C27_SecondInstanceKeepsTables == ConstructedAgain => taxonomy_data = log[1]

\* get_lca2 has been applied to two or more ids and has returned.
Lca2Returned ==
    /\ ReadCalled("get_lca2")
    /\ Len(call.taxonomy_id_list) >= 2
    /\ call.ret = "return"

\* C30: the result of get_lca2 on two or more ids is the root, the unknown
\* id, or an ancestor-or-self of every id of the list that is in the tree;
\* it is never a taxon below one of them.
C30_Lca2IsCommonAncestor ==
    Lca2Returned =>
        call.value \in {UNKNOWN_TAXONOMY_ID, ROOT_TAXONOMY_ID}
                           \cup CommonAncestors(call.pre.nodes, PresentIds)

\* The average coverage of the run is zero.
ZeroAverage == average_coverage_of(params.coverage_data) = Zero

\* C22: when the average coverage is zero, every function score that a
\* call ending with status function gives the read is 1.0, whatever the
\* coverage of the read's contig.
C22_ZeroAverageScoresOne ==
    (EndedWithFunction /\ ZeroAverage) =>
        \A f \in DOMAIN read.functions : read.functions[f] = <<1, 1>>

\* The call ran for an anchor hit with a best validation hit of positive
\* bitscore that carries a function.
BestHitHasFunction == AnchorFound /\ HasBest /\ ~BestIsSentinel

\* C26: whenever the best validation hit has a positive bitscore and a
\* function, the best hit is among the hits kept by the window in every
\* iteration that reaches the filter, the call returns without raising, and
\* a read left with status function has a function score.
C26_BestHitInWindow ==
    BestHitHasFunction =>
        /\ \A n \in Iterations :
              call.trace[n].filtered =>
                  call.new_hit_list[BestIndex] \in Range(call.trace[n].new_hits)
        /\ call.ret = "return"
        /\ read.status = "function" => DOMAIN read.functions # {}

\* The rows of the stream whose composite id names the anchor read.
RowsOfAnchor ==
    {i \in 1..Len(stream.rows) :
        decode_query_id(stream.rows[i].query_id).read_id = AnchorRead.read_id}

\* A background pass has returned over a contiguously grouped stream in
\* which the anchor read, a key of the working set, has the rows of one
\* composite id only, all of them below the identity or the length cutoff.
FailingGroupOfAnchor ==
    /\ mode \in {"background", "pipeline"} /\ outcome = "returned"
    /\ AnchorRead.read_id \in DOMAIN stream.reads
    /\ ContiguouslyGrouped(stream.rows)
    /\ RowsOfAnchor # {}
    /\ \A i, j \in RowsOfAnchor : stream.rows[i].query_id = stream.rows[j].query_id
    /\ \A i \in RowsOfAnchor : below_cutoffs(create_hit(stream.rows[i]))

\* C25: a composite-id group all of whose rows fail a cutoff leaves its
\* anchor with the same status wherever it sits in the stream: the status
\* the read had before the pass, as for an interior group.
C25_FailingGroupSamePlace ==
    FailingGroupOfAnchor =>
        reads[AnchorRead.read_id].status = stream.reads[AnchorRead.read_id].status

(***************************************************************************)
(* Identifiers as character strings: the composite ids that                *)
(* export_hit_fasta writes and the background passes decode, and the       *)
(* sequence headers that parse_fastq_seqid reads.  A string is the         *)
(* sequence of its characters.                                             *)
(***************************************************************************)
MaxHeader == 5
MaxBase == 3

\* str.split(sep) for a separator of one character: the tokens between the
\* separators, empty tokens included.
RECURSIVE split(_, _, _, _)
split(line, sep, i, token) ==
    IF i > Len(line) THEN <<token>>
    ELSE IF line[i] = sep THEN <<token>> \o split(line, sep, i + 1, <<>>)
    ELSE split(line, sep, i + 1, Append(token, line[i]))

\* sep.join(tokens)
RECURSIVE join(_, _)
join(tokens, sep) ==
    IF tokens = <<>> THEN <<>>
    ELSE IF Len(tokens) = 1 THEN tokens[1]
    ELSE tokens[1] \o <<sep>> \o join(Tail(tokens), sep)

Digits == <<"0", "1", "2", "3", "4", "5", "6", "7", "8", "9">>

\* str(n) of an int n >= 0: its decimal digits.
RECURSIVE str(_)
str(n) ==
    IF n < 10 THEN <<Digits[n + 1]>>
    ELSE Append(str(n \div 10), Digits[(n % 10) + 1])

\* The value of a digit character.
digit_value(c) == CHOOSE d \in 0..9 : Digits[d + 1] = c

\* int(token) of a string without sign, space or underscore: the number its
\* digits denote; ret is "raise" for the ValueError of an empty token or of
\* a character that is no digit.
RECURSIVE int_digits(_, _, _)
int_digits(token, i, value) ==
    IF i > Len(token) THEN [ret |-> "return", value |-> value]
    ELSE IF \A d \in 1..10 : Digits[d] # token[i] THEN [ret |-> "raise", value |-> 0]
    ELSE int_digits(token, i + 1, 10 * value + digit_value(token[i]))

int(token) ==
    IF token = <<>> THEN [ret |-> "raise", value |-> 0]
    ELSE int_digits(token, 1, 0)

\* A variant of export_hit_fasta's header that leaves out the separator
\* between start and end.
composite_id_unseparated(read_id, start, end) ==
    read_id \o <<"|">> \o str(start) \o str(end)

\* export_hit_fasta: the id of the sequence written for a hit, after '>'.
composite_id(read_id, start, end) ==
    read_id \o <<"|">> \o str(start) \o <<"|">> \o str(end)

\* The background passes decoding current_query_id: the last two tokens
\* are the interval, the tokens before them joined again are the read id.
parse_query_id(query_id) ==
    IF Len(split(query_id, "|", 1, <<>>)) < 2
       \/ int(decode_query_id(split(query_id, "|", 1, <<>>)).hit_end).ret = "raise"
       \/ int(decode_query_id(split(query_id, "|", 1, <<>>)).hit_start).ret = "raise"
    THEN [ret |-> "raise", read_id |-> <<>>, hit_start |-> 0, hit_end |-> 0]
    ELSE [ret |-> "return",
          read_id |-> join(decode_query_id(split(query_id, "|", 1, <<>>)).read_id, "|"),
          hit_start |-> int(decode_query_id(split(query_id, "|", 1, <<>>)).hit_start).value,
          hit_end |-> int(decode_query_id(split(query_id, "|", 1, <<>>)).hit_end).value]

\* Strings of up to n characters of an alphabet.
Strings(alphabet, n) == SeqsUpTo(alphabet, n)

\* Headers of sequence files: the marker, the space, the two suffix marks,
\* the end digits and a letter.
HeaderCharacters == {"@", " ", "/", ".", "1", "2", "r"}
Headers == Strings(HeaderCharacters, MaxHeader)

\* Read ids, with and without '|', and query coordinates of hits.
ReadIdCharacters == {"r", "|", "1", "0"}
ReadIds == Strings(ReadIdCharacters, MaxBase)
Coordinates == {0, 1, 9, 10, 40, 150}
ExportedHits ==
    [read_id : ReadIds, q_start : Coordinates, q_end : Coordinates]

InitIds ==
    /\ mode = "ids"
    /\ params \in {[line |-> h] : h \in Headers} \cup {[hit |-> h] : h \in ExportedHits}
    /\ call = NoCall
    /\ taxonomy_data = LoadedTaxonomy
    /\ read = AnchorRead
    /\ log = <<>>
    /\ reads = <<>>
    /\ rows = <<>>
    /\ stream = [rows |-> <<>>, reads |-> <<>>]
    /\ current_id = None
    /\ hit_list = None
    /\ outcome = "ready"
    /\ finalized = <<>>

\* import_fastq / parse_reference_output reading a sequence identifier.
ParseFastqSeqid ==
    /\ mode = "ids" /\ call = NoCall /\ "line" \in DOMAIN params
    /\ call' = [op |-> "parse_fastq_seqid", ret |-> parse_fastq_seqid(params.line).ret,
                read_id |-> parse_fastq_seqid(params.line).read_id,
                end |-> parse_fastq_seqid(params.line).end]
    /\ UNCHANGED <<taxonomy_data, params, read, log, mode, reads, rows, current_id,
                   hit_list, outcome, finalized, stream>>

\* export_hit_fasta writing the sequence of a hit under its composite id.
ExportHitFasta ==
    /\ mode = "ids" /\ call = NoCall /\ "hit" \in DOMAIN params
    /\ call' = [op |-> "export_hit_fasta", ret |-> "return",
                query_id |-> composite_id(params.hit.read_id, params.hit.q_start,
                                          params.hit.q_end)]
    /\ UNCHANGED <<taxonomy_data, params, read, log, mode, reads, rows, current_id,
                   hit_list, outcome, finalized, stream>>

\* A background pass decoding the composite id of a group of rows that the
\* search reported for an exported sequence.
ParseQueryId ==
    /\ mode = "ids" /\ call # NoCall /\ call.op = "export_hit_fasta"
    /\ call' = [op |-> "parse_background_output", query_id |-> call.query_id,
                ret |-> parse_query_id(call.query_id).ret,
                read_id |-> parse_query_id(call.query_id).read_id,
                hit_start |-> parse_query_id(call.query_id).hit_start,
                hit_end |-> parse_query_id(call.query_id).hit_end]
    /\ UNCHANGED <<taxonomy_data, params, read, log, mode, reads, rows, current_id,
                   hit_list, outcome, finalized, stream>>

NextIds == ParseFastqSeqid \/ ExportHitFasta \/ ParseQueryId

IdSpec == InitIds /\ [][NextIds]_vars

\* A composite id written by export_hit_fasta has been decoded.
Decoded == mode = "ids" /\ call # NoCall /\ call.op = "parse_background_output"

\* C23: composite id round trip.  For every read id, also with '|' in it, and
\* every interval, decoding the id that export_hit_fasta wrote gives the read
\* id, the start and the end of the exported hit.
C23_CompositeIdRoundTrip ==
    Decoded =>
        /\ call.ret = "return"
        /\ call.read_id = params.hit.read_id
        /\ call.hit_start = params.hit.q_start
        /\ call.hit_end = params.hit.q_end

\* C23 happens: the id of a read with '|' and digits in it went through the
\* round trip with an interval of several digits.
C23_Witness ==
    /\ Decoded /\ call.ret = "return"
    /\ params.hit.read_id = <<"1", "|", "0">>
    /\ params.hit.q_start = 10 /\ params.hit.q_end = 150
    /\ call.read_id = params.hit.read_id

\* parse_fastq_seqid has been applied to the header of the state.
Parsed == mode = "ids" /\ call # NoCall /\ call.op = "parse_fastq_seqid"

\* The header without its leading marker.
Unmarked(header) ==
    IF header # <<>> /\ header[1] = "@" THEN Tail(header) ELSE header

HasEndSuffix(s, mark) == endswith(s, mark, "1") \/ endswith(s, mark, "2")

WithoutSuffix(s) == <<SubSeq(s, 1, Len(s) - 2), <<s[Len(s)]>>>>

\* The pair (id, end marker) of the sequence-identifier parsing rule for a
\* header without its marker; the first character of an empty second token
\* is taken as empty.
SeqidRule(line) ==
    LET tokens == split(line, " ", 1, <<>>)
    IN IF Len(tokens) = 2
       THEN <<tokens[1], SubSeq(tokens[2], 1, 1)>>
       ELSE IF Len(tokens) = 3 /\ HasEndSuffix(tokens[1], ".")
       THEN WithoutSuffix(tokens[1])
       ELSE IF Len(tokens) > 1
       THEN <<tokens[1], <<>>>>
       ELSE IF HasEndSuffix(line, "/") \/ HasEndSuffix(line, ".")
       THEN WithoutSuffix(line)
       ELSE <<line, <<>>>>

\* C24: for every header string parse_fastq_seqid returns, without raising,
\* the pair (id, end marker) that the sequence-identifier parsing rule gives
\* for the header.
C24_SeqidRuleWithoutRaise ==
    Parsed =>
        /\ call.ret = "return"
        /\ <<call.read_id, call.end>> = SeqidRule(Unmarked(params.line))

\* The first space-delimited token of a header.
FirstToken(header) == split(header, " ", 1, <<>>)[1]

\* C28: for every header, the id parse_fastq_seqid extracts from the full
\* header is the id it extracts from the header's first space-delimited
\* token, the query id that the reference pass parses.
C28_HeaderAndQueryIdAgree ==
    (Parsed /\ call.ret = "return") =>
        call.read_id = parse_fastq_seqid(FirstToken(params.line)).read_id


====
